---- MODULE Spec2Model ----
(***************************************************************************)
(* A model of the text normalisation core of nyt-summ: the sentence        *)
(* splitter's boundary correction (lexical/splitter.py), the sanitizer's   *)
(* masking (lexical/sanitizer.py), the tokenizer's rule cascade            *)
(* (lexical/tokenizer.py), the Sentence comparison predicates              *)
(* (sentence.py) and the document preprocessing and sentence cache         *)
(* (doc.py).                                                               *)
(*                                                                         *)
(* A Python string is a sequence of one-character strings.  Python indexes *)
(* from 0 and TLA+ from 1: text[k] in the source is text[k + 1] here.      *)
(* Each component has its own specification (SpecSplit, SpecMask, ...);    *)
(* the variables of the other components stay at their idle values.        *)
(***************************************************************************)
EXTENDS Integers, Sequences, FiniteSets, TLC

VARIABLES
    \* Splitter.fix_boundaries (lexical/splitter.py)
    spc,            \* position: "idle", "loop", "returned", "assert_failed"
    text,           \* the text given to split()
    sents,          \* the candidates of the first pass (punkt)
    s,              \* number of candidates already examined
    fixed_sents,    \* the output list
    prev_sent,      \* the pending buffer
    prev_gap_len,   \* length of the gap after the last examined candidate
    i,              \* offset in text where the next sentence would start
    sent,           \* the loop's current sentence after merge / excision
    bad_prefix,     \* Some(prefix) when the last iteration excised a prefix
    \* Sanitizer (lexical/sanitizer.py)
    mpc,            \* position: "idle", "masked", "unmasked", "raised"
    san_tokens,     \* Sanitizer.tokens, the stored substrings
    mask_in,        \* the string given to mask_all
    mask_out,       \* the string mask_all returned
    unmask_out,     \* the string unmask_all returned
    \* Tokenizer (lexical/tokenizer.py)
    tpc,            \* position: "idle", "returned", "raised"
    open_quote,     \* Tokenizer.open_quote
    tok_in,         \* the string given to tokenize
    tokens,         \* the list tokenize returned
    \* Sentence pairs (sentence.py)
    cpc,            \* position: "idle", "summary", "pair", "compared"
    summ_sent,      \* the summary sentence: raw, tokens, stripped
    doc_sent,       \* the document sentence
    identical,      \* summ_sent.is_identical_to(doc_sent)
    contained,      \* summ_sent.is_contained_in(doc_sent)
    subseq,         \* summ_sent.is_subseq_of(doc_sent)
    \* NYTDoc (doc.py)
    dpc,            \* position: "none", "loaded", "raised", "assert_failed"
    full_text,      \* self.full_text, a list of paragraphs
    online_lead,    \* self.summaries['online_lead']
    abstract,       \* self.summaries['abstract']
    lead,           \* self.summaries['lead']
    has_cache,      \* hasattr(self, 'cache')
    cache,          \* self.cache: Some(sentences) or None for each name
    runs,           \* number of calls of preprocess_all so far
    calls,          \* number of calls of get_cached_sentences so far
    returned,       \* what the last call of get_cached_sentences returned
    last_run,       \* history: Some(arguments of the last preprocess_all
                    \* and the indices of the paragraphs it kept) or None
    \* Untokenizer.untokenize (lexical/untokenizer.py)
    upc,            \* position: "idle", "untokenized", "retokenized", "raised"
    untok_words,    \* the words given to untokenize
    spaced_words,   \* untokenize's spaced_words at the return
    symbol_stack,   \* untokenize's symbol_stack at the return
    unexpected_symbols, \* untokenize's unexpected_symbols at the return
    joined_words,   \* the list untokenize joins into its result
    untok_out,      \* the string untokenize returned
    retokens,       \* what tokenize returned for untok_out
    \* NYTDoc.has_reachable_summary (doc.py)
    rpc,            \* position: "idle", "called", "doc", "returned", ...
    reach_type,     \* summary_type
    reach_cmp,      \* comparison
    doc_sents,      \* the sentences of the full text
    ref_sents,      \* the sentences of the summary
    reach_result,   \* the value returned
    \* NYTCorpus.get_all_docs (corpus.py)
    gpc,            \* the generator: "none", "open", "exhausted", "raised"
    members,        \* the members of the tarballs, in traversal order
    subset,         \* None, or Some of the set of member paths wanted
    member_pos,     \* the members the loops have been through
    yielded,        \* the documents yielded so far, by member
    printed,        \* the lines extract_text printed
    logged,         \* the members logged for invalid XML
    \* NYTDoc.conditional_replace (doc.py)
    xpc,            \* position: "idle", "returned", "raised"
    repl_tgt,       \* tgt_paras
    repl_src,       \* src_paras
    repl_out,       \* the paragraphs returned
    \* NYTCorpus.export_dataset (corpus.py)
    epc,            \* position: "idle", "yielded", "skipped"
    exp_flags,      \* extractive, semi_extractive, sub_extractive
    exp_ref,        \* the cached sentences of the document's summary
    exp_doc,        \* the cached sentences of the document's full text
    exp_tested,     \* whether the extractiveness test let the document pass
    \* Sentence.truncate (sentence.py)
    kpc,            \* position: "idle", "created", "truncated"
    trunc_self,     \* the sentence truncate is called on
    trunc_budget,   \* budget
    trunc_cost,     \* cost_type
    trunc_new,      \* the sentence truncate returns
    \* re.sub(apostrophe_re, handle_apostrophes, string) (lexical/tokenizer.py)
    apc,            \* position: "idle", "substituted"
    apos_in,        \* the string before the substitution
    apos_out,       \* the string after the substitution
    \* NYTDoc.fix_capitalization, statement by statement (doc.py)
    fpc,            \* position: "idle", "loop", "returned"
    cap_tgt,        \* tgt_paras
    cap_src,        \* src_paras
    cap_i,          \* i
    cap_out         \* the paragraphs returned

splitVars == <<spc, text, sents, s, fixed_sents, prev_sent, prev_gap_len, i,
               sent, bad_prefix>>

maskVars == <<mpc, san_tokens, mask_in, mask_out, unmask_out>>
tokVars == <<tpc, open_quote, tok_in, tokens>>
sentVars == <<cpc, summ_sent, doc_sent, identical, contained, subseq>>
docVars == <<dpc, full_text, online_lead, abstract, lead, has_cache, cache,
             runs, calls, returned, last_run>>

untokVars == <<upc, untok_words, spaced_words, symbol_stack,
               unexpected_symbols, joined_words, untok_out, retokens>>

reachVars == <<rpc, reach_type, reach_cmp, doc_sents, ref_sents,
               reach_result>>

corpusVars == <<gpc, members, subset, member_pos, yielded, printed, logged>>

replVars == <<xpc, repl_tgt, repl_src, repl_out>>

exportVars == <<epc, exp_flags, exp_ref, exp_doc, exp_tested>>

truncVars == <<kpc, trunc_self, trunc_budget, trunc_cost, trunc_new>>

aposVars == <<apc, apos_in, apos_out>>

capVars == <<fpc, cap_tgt, cap_src, cap_i, cap_out>>

vars == <<splitVars, maskVars, tokVars, sentVars, docVars, untokVars,
          reachVars, corpusVars, replVars, exportVars, truncVars, aposVars,
          capVars>>

\* What the operations of one component leave alone
notSplitVars == <<maskVars, tokVars, sentVars, docVars, untokVars, reachVars,
                  corpusVars, replVars, exportVars, truncVars, aposVars,
                  capVars>>
notMaskVars == <<splitVars, tokVars, sentVars, docVars, untokVars, reachVars,
                 corpusVars, replVars, exportVars, truncVars, aposVars,
                 capVars>>
notTokVars == <<splitVars, mpc, mask_in, mask_out, unmask_out, sentVars,
                docVars, untokVars, reachVars, corpusVars, replVars,
                exportVars, truncVars, aposVars, capVars>>
notSentVars == <<splitVars, mpc, mask_in, mask_out, unmask_out, tpc, tok_in,
                 tokens, docVars, untokVars, reachVars, corpusVars, replVars,
                 exportVars, truncVars, aposVars, capVars>>
notReplVars == <<splitVars, maskVars, tokVars, sentVars, docVars, untokVars,
                 reachVars, corpusVars, exportVars, truncVars, aposVars,
                 capVars>>
notExportVars == <<splitVars, maskVars, tokVars, sentVars, docVars, untokVars,
                   reachVars, corpusVars, replVars, truncVars, aposVars,
                   capVars>>
notTruncVars == <<splitVars, mpc, mask_in, mask_out, unmask_out, tpc, tok_in,
                  tokens, sentVars, docVars, untokVars, reachVars, corpusVars,
                  replVars, exportVars, aposVars, capVars>>
notAposVars == <<splitVars, maskVars, tpc, tok_in, tokens, sentVars, docVars,
                 untokVars, reachVars, corpusVars, replVars, exportVars,
                 truncVars, capVars>>
notCapVars == <<splitVars, maskVars, tokVars, sentVars, docVars, untokVars,
                reachVars, corpusVars, replVars, exportVars, truncVars,
                aposVars>>
notCorpusVars == <<splitVars, maskVars, tokVars, sentVars, docVars, untokVars,
                   reachVars, replVars, exportVars, truncVars, aposVars,
                   capVars>>
notDocVars == <<splitVars, maskVars, tokVars, sentVars, untokVars, reachVars,
                corpusVars, replVars, exportVars, truncVars, aposVars,
                capVars>>
notReachVars == <<splitVars, maskVars, tokVars, sentVars, untokVars,
                  corpusVars, replVars, exportVars, truncVars, aposVars,
                  capVars>>
notUntokVars == <<splitVars, mpc, mask_in, mask_out, unmask_out, tpc, tok_in,
                  tokens, sentVars, docVars, reachVars, corpusVars, replVars,
                  exportVars, truncVars, aposVars, capVars>>

-----------------------------------------------------------------------------
(* Strings and characters *)

UpperSeq == <<"A","B","C","D","E","F","G","H","I","J","K","L","M",
              "N","O","P","Q","R","S","T","U","V","W","X","Y","Z">>
LowerSeq == <<"a","b","c","d","e","f","g","h","i","j","k","l","m",
              "n","o","p","q","r","s","t","u","v","w","x","y","z">>
DigitChars == {"0","1","2","3","4","5","6","7","8","9"}
UpperChars == {UpperSeq[k] : k \in 1..26}
LowerChars == {LowerSeq[k] : k \in 1..26}

\* The no-break space U+00A0, the tab and the grave accent U+0060.
NBSP == "~nbsp"
TAB == "~tab"
BACKTICK == "~grave"

IsDigit(c) == c \in DigitChars
IsUpper(c) == c \in UpperChars
IsLower(c) == c \in LowerChars
IsAlpha(c) == IsUpper(c) \/ IsLower(c)
IsAlnum(c) == IsAlpha(c) \/ IsDigit(c)
\* \w of the re module
IsWord(c) == IsAlnum(c) \/ c = "_"
\* str.isspace and \s of the re module
IsSpace(c) == c \in {" ", NBSP, TAB}

ToUpper(c) == IF IsLower(c) THEN UpperSeq[CHOOSE k \in 1..26 : LowerSeq[k] = c]
              ELSE c
ToLower(c) == IF IsUpper(c) THEN LowerSeq[CHOOSE k \in 1..26 : UpperSeq[k] = c]
              ELSE c

StrUpper(str) == [k \in 1..Len(str) |-> ToUpper(str[k])]
StrLower(str) == [k \in 1..Len(str) |-> ToLower(str[k])]

\* str[a:b] of Python for 0 <= a, b (0-based, b exclusive, clipped)
Slice(str, a, b) ==
    LET hi == IF b > Len(str) THEN Len(str) ELSE b
    IN  IF a >= hi THEN <<>> ELSE SubSeq(str, a + 1, hi)

\* str[a:]
From(str, a) == Slice(str, a, Len(str))

StartsWith(str, pre) ==
    Len(pre) <= Len(str) /\ SubSeq(str, 1, Len(pre)) = pre

EndsWith(str, suf) ==
    Len(suf) <= Len(str)
    /\ SubSeq(str, Len(str) - Len(suf) + 1, Len(str)) = suf

\* sub occurs in str at 0-based offset a
OccursAt(str, sub, a) ==
    a + Len(sub) <= Len(str) /\ SubSeq(str, a + 1, a + Len(sub)) = sub

\* the `in` operator on strings
Contains(str, sub) == \E a \in 0..Len(str) : OccursAt(str, sub, a)

RECURSIVE Concat(_)
Concat(strs) == IF strs = <<>> THEN <<>> ELSE Head(strs) \o Concat(Tail(strs))

\* ' ' * n
Spaces(n) == [k \in 1..n |-> " "]

\* Optional values: None and Some(v)
None == <<>>
Some(v) == <<v>>

-----------------------------------------------------------------------------
(* lexical/splitter.py *)

WHITESPACE == {" ", NBSP}
EOS_PUNCTS == {".", "!", "?"}
CLS_PARENS == {")", "]", "}"}
SNG_QUOTES == {"'", BACKTICK}
DBL_QUOTES == {"\""}

\* The entries of wordlists/abbreviations.lst, with the uppercased variants
\* load_set adds.
abbrevs == { <<"M","r",".">>, <<"M","R",".">> }

\* Splitter.consume_whitespace: the amount of whitespace at and following
\* the 0-based index idx.
RECURSIVE consume_whitespace(_, _, _)
consume_whitespace(txt, idx, whitespace) ==
    IF idx < Len(txt) /\ txt[idx + 1] \in whitespace
    THEN 1 + consume_whitespace(txt, idx + 1, whitespace)
    ELSE 0

\* bad_prefixes_re: a leading run of closing brackets, quotes and terminal
\* punctuation, an optional s, then whitespace or the end; group 1 or None.
PrefixClass == CLS_PARENS \cup SNG_QUOTES \cup DBL_QUOTES \cup EOS_PUNCTS

RECURSIVE ClassRun(_, _)
ClassRun(str, k) ==
    IF k < Len(str) /\ str[k + 1] \in PrefixClass
    THEN 1 + ClassRun(str, k + 1) ELSE 0

bad_prefixes_re(str) ==
    LET r  == ClassRun(str, 0)
        rs == IF r < Len(str) /\ str[r + 1] = "s" THEN r + 1 ELSE r
        Ok(n) == n = Len(str) \/ str[n + 1] \in WHITESPACE
    IN  IF r = 0 THEN None
        ELSE IF Ok(rs) THEN Some(Slice(str, 0, rs))
        ELSE IF Ok(r) THEN Some(Slice(str, 0, r))
        ELSE None

\* Splitter.check_prefix
RECURSIVE FirstAlnum(_, _)
FirstAlnum(str, k) ==
    IF k >= Len(str) THEN None
    ELSE IF IsAlnum(str[k + 1]) THEN Some(str[k + 1])
    ELSE FirstAlnum(str, k + 1)

check_prefix(str) ==
    LET c == FirstAlnum(str, 0)
    IN  IF c # None /\ IsLower(c[1]) THEN Some(str)
        ELSE bad_prefixes_re(str)

\* str.rfind(' '), -1 when there is none
RECURSIVE RFindSpace(_, _)
RFindSpace(str, k) ==
    IF k = 0 THEN -1
    ELSE IF str[k] = " " THEN k - 1
    ELSE RFindSpace(str, k - 1)

\* The reverse scan of check_suffix: from the final period leftwards until a
\* space, a digit or the start; TRUE when it meets a second period.
RECURSIVE ScanBack(_, _)
ScanBack(str, k) ==
    IF k < 1 THEN FALSE
    ELSE IF IsDigit(str[k]) THEN FALSE
    ELSE IF str[k] = "." THEN TRUE
    ELSE IF str[k] = " " THEN FALSE
    ELSE ScanBack(str, k - 1)

\* bad_suffixes_re: '^(?:.*\W)?(abbrev|...)$', group 1 or None.
bad_suffixes_re(str) ==
    LET hits == {a \in abbrevs :
                    /\ EndsWith(str, a)
                    /\ \/ Len(str) = Len(a)
                       \/ ~IsWord(str[Len(str) - Len(a)])}
    IN  IF hits = {} THEN None ELSE Some(CHOOSE a \in hits : TRUE)

\* check_suffix without the reverse scan for a second period.
check_suffix_dictionary_only(str) == bad_suffixes_re(str)

\* Splitter.check_suffix
check_suffix(str) ==
    IF Len(str) > 0 /\ str[Len(str)] = "." /\ ScanBack(str, Len(str) - 1)
    THEN Some(From(str, RFindSpace(str, Len(str)) + 1))
    ELSE bad_suffixes_re(str)

\* The candidate lists of the first pass.  The punkt model is an external
\* service: it returns any list of non-blank spans which, with the
\* whitespace (\s+) gaps between them, cover the text.
MaxSents == 2

Words == { <<"U",".","S",".">>, <<"M","r",".">>, <<"N","o","w",".">>,
           <<"n","o","w",".">>, <<")">>, <<"A">>, <<"9",".","9",".">> }
Phrases == { <<")"," ","N","o","w",".">>, <<"A"," ","U",".","S",".">>,
             <<"A"," ","M","r",".">>, <<".","."," ","N","o","w",".">> }
Candidates == Words \cup Phrases
Gaps == { <<" ">>, <<" "," ">>, <<NBSP>>, <<TAB>> }

\* The text a candidate list and its gaps cover.
RECURSIVE JoinWithGaps(_, _)
JoinWithGaps(cands, gaps) ==
    IF Len(cands) = 0 THEN <<>>
    ELSE IF Len(cands) = 1 THEN cands[1]
    ELSE cands[1] \o gaps[1] \o JoinWithGaps(Tail(cands), Tail(gaps))

SplitIdle ==
    /\ spc = "idle" /\ text = <<>> /\ sents = <<>> /\ s = 0
    /\ fixed_sents = <<>> /\ prev_sent = <<>> /\ prev_gap_len = 0 /\ i = 0
    /\ sent = <<>> /\ bad_prefix = None

\* Splitter.split: the first pass proposes sents, fix_boundaries starts.
split ==
    /\ spc = "idle"
    /\ \E n \in 1..MaxSents :
       \E cands \in [1..n -> Candidates], gaps \in [1..(n - 1) -> Gaps] :
          /\ text' = JoinWithGaps(cands, gaps)
          /\ sents' = cands
    /\ spc' = "loop"
    /\ s' = 0 /\ i' = 0 /\ prev_gap_len' = 0
    /\ fixed_sents' = <<>> /\ prev_sent' = <<>>
    /\ sent' = <<>> /\ bad_prefix' = None

\* fixed_sents[-1] += suffix
AppendToLast(list, suffix) ==
    [list EXCEPT ![Len(list)] = list[Len(list)] \o suffix]

\* One iteration of the for loop of fix_boundaries.
fix_boundaries_step ==
    /\ spc = "loop" /\ s < Len(sents)
    /\ LET cand   == sents[s + 1]
           i1     == i + Len(cand)
           gap    == Spaces(prev_gap_len)
           merge  == Len(prev_sent) > 0
           bp     == IF ~merge /\ Len(fixed_sents) > 0
                     THEN check_prefix(cand) ELSE None
           j      == Len(bp[1])
                     + consume_whitespace(text, Len(bp[1]), WHITESPACE)
           sent1  == IF merge THEN prev_sent \o gap \o cand
                     ELSE IF bp # None THEN From(cand, j)
                     ELSE cand
           fixed1 == IF bp # None
                     THEN AppendToLast(fixed_sents, gap \o bp[1])
                     ELSE fixed_sents
           gaplen == IF s < Len(sents) - 1
                     THEN consume_whitespace(text, i1, WHITESPACE) ELSE 0
       IN  /\ prev_gap_len' = gaplen
           /\ i' = i1 + gaplen
           /\ sent' = sent1
           /\ bad_prefix' = bp
           /\ IF Len(sent1) = 0
              THEN prev_sent' = <<>> /\ fixed_sents' = fixed1
              ELSE IF check_suffix(sent1) # None
              THEN prev_sent' = sent1 /\ fixed_sents' = fixed1
              ELSE prev_sent' = <<>> /\ fixed_sents' = Append(fixed1, sent1)
    /\ s' = s + 1
    /\ UNCHANGED <<text, sents>>
    /\ spc' = "loop"

\* A variant that returns the sentences without the assertion
fix_boundaries_return_unchecked ==
    /\ spc = "loop" /\ s = Len(sents)
    /\ fixed_sents' = IF Len(prev_sent) > 0
                      THEN Append(fixed_sents, prev_sent) ELSE fixed_sents
    /\ spc' = "returned"
    /\ UNCHANGED <<text, sents, s, prev_sent, prev_gap_len, i, sent,
                   bad_prefix>>

\* After the loop: the assertion holds, the pending buffer is flushed and
\* the list is returned.
fix_boundaries_return ==
    /\ spc = "loop" /\ s = Len(sents)
    /\ i = Len(text)
    /\ fixed_sents' = IF Len(prev_sent) > 0
                      THEN Append(fixed_sents, prev_sent) ELSE fixed_sents
    /\ spc' = "returned"
    /\ UNCHANGED <<text, sents, s, prev_sent, prev_gap_len, i, sent,
                   bad_prefix>>

\* After the loop: assert i == len(text) fails, nothing is returned.
fix_boundaries_assert ==
    /\ spc = "loop" /\ s = Len(sents)
    /\ i # Len(text)
    /\ spc' = "assert_failed"
    /\ UNCHANGED <<text, sents, s, fixed_sents, prev_sent, prev_gap_len, i,
                   sent, bad_prefix>>

NextSplit ==
    \/ split /\ UNCHANGED notSplitVars
    \/ fix_boundaries_step /\ UNCHANGED notSplitVars
    \/ fix_boundaries_return /\ UNCHANGED notSplitVars
    \/ fix_boundaries_assert /\ UNCHANGED notSplitVars


-----------------------------------------------------------------------------
(* lexical/sanitizer.py *)

placeholder_prefix ==
    <<"I","n","t","e","r","n","a","l","T","o","k","e","n">>

PatternNames == <<"Email", "URL">>
PatternNameChars(name) ==
    IF name = "Email" THEN <<"E","m","a","i","l">> ELSE <<"U","R","L">>

\* The characters of an email address: [\w\.\-_]
EmailChar(c) == IsWord(c) \/ c \in {".", "-", "_"}

\* The characters of a URL: [\w/#~:\.?+=&%@!\-;$]
UrlChar(c) ==
    IsWord(c) \/ c \in {"/", "#", "~", ":", ".", "?", "+", "=", "&", "%",
                        "@", "!", "-", ";", "$"}

\* The top-level domains of _init_url_re.
tlds == {
    <<"a","e","r","o">>, <<"a","s","i","a">>, <<"b","i","z">>,
    <<"c","a","t">>, <<"c","o","m">>, <<"c","o","o","p">>, <<"e","d","u">>,
    <<"g","o","v">>, <<"i","n","f","o">>, <<"i","n","t">>,
    <<"j","o","b","s">>, <<"m","i","l">>, <<"m","o","b","i">>,
    <<"m","u","s","e","u","m">>, <<"n","a","m","e">>, <<"n","e","t">>,
    <<"o","r","g">>, <<"p","r","o">>, <<"t","e","l">>,
    <<"t","r","a","v","e","l">>, <<"a","c">>, <<"a","d">>, <<"a","e">>,
    <<"a","f">>, <<"a","g">>, <<"a","i">>, <<"a","l">>, <<"a","m">>,
    <<"a","n">>, <<"a","o">>, <<"a","q">>, <<"a","r">>, <<"a","s">>,
    <<"a","t">>, <<"a","u">>, <<"a","w">>, <<"a","x">>, <<"a","z">>,
    <<"b","a">>, <<"b","b">>, <<"b","d">>, <<"b","e">>, <<"b","f">>,
    <<"b","g">>, <<"b","h">>, <<"b","i">>, <<"b","j">>, <<"b","m">>,
    <<"b","n">>, <<"b","o">>, <<"b","r">>, <<"b","s">>, <<"b","t">>,
    <<"b","v">>, <<"b","w">>, <<"b","y">>, <<"b","z">>, <<"c","a">>,
    <<"c","c">>, <<"c","d">>, <<"c","f">>, <<"c","g">>, <<"c","h">>,
    <<"c","i">>, <<"c","k">>, <<"c","l">>, <<"c","m">>, <<"c","n">>,
    <<"c","o">>, <<"c","r">>, <<"c","u">>, <<"c","v">>, <<"c","x">>,
    <<"c","y">>, <<"c","z">>, <<"d","e">>, <<"d","j">>, <<"d","k">>,
    <<"d","m">>, <<"d","o">>, <<"d","z">>, <<"e","c">>, <<"e","e">>,
    <<"e","g">>, <<"e","h">>, <<"e","r">>, <<"e","s">>, <<"e","t">>,
    <<"e","u">>, <<"f","i">>, <<"f","j">>, <<"f","k">>, <<"f","m">>,
    <<"f","o">>, <<"f","r">>, <<"g","a">>, <<"g","b">>, <<"g","d">>,
    <<"g","e">>, <<"g","f">>, <<"g","g">>, <<"g","h">>, <<"g","i">>,
    <<"g","l">>, <<"g","m">>, <<"g","n">>, <<"g","p">>, <<"g","q">>,
    <<"g","r">>, <<"g","s">>, <<"g","t">>, <<"g","u">>, <<"g","w">>,
    <<"g","y">>, <<"h","k">>, <<"h","m">>, <<"h","n">>, <<"h","r">>,
    <<"h","t">>, <<"h","u">>, <<"i","d">>, <<"i","e">>, <<"i","l">>,
    <<"i","m">>, <<"i","n">>, <<"i","o">>, <<"i","q">>, <<"i","r">>,
    <<"i","s">>, <<"i","t">>, <<"j","e">>, <<"j","m">>, <<"j","o">>,
    <<"j","p">>, <<"k","e">>, <<"k","g">>, <<"k","h">>, <<"k","i">>,
    <<"k","m">>, <<"k","n">>, <<"k","p">>, <<"k","r">>, <<"k","w">>,
    <<"k","y">>, <<"k","z">>, <<"l","a">>, <<"l","b">>, <<"l","c">>,
    <<"l","i">>, <<"l","k">>, <<"l","r">>, <<"l","s">>, <<"l","t">>,
    <<"l","u">>, <<"l","v">>, <<"l","y">>, <<"m","a">>, <<"m","c">>,
    <<"m","d">>, <<"m","e">>, <<"m","g">>, <<"m","h">>, <<"m","k">>,
    <<"m","l">>, <<"m","m">>, <<"m","n">>, <<"m","o">>, <<"m","p">>,
    <<"m","q">>, <<"m","r">>, <<"m","s">>, <<"m","t">>, <<"m","u">>,
    <<"m","v">>, <<"m","w">>, <<"m","x">>, <<"m","y">>, <<"m","z">>,
    <<"n","a">>, <<"n","c">>, <<"n","e">>, <<"n","f">>, <<"n","g">>,
    <<"n","i">>, <<"n","l">>, <<"n","o">>, <<"n","p">>, <<"n","r">>,
    <<"n","u">>, <<"n","z">>, <<"o","m">>, <<"p","a">>, <<"p","e">>,
    <<"p","f">>, <<"p","g">>, <<"p","h">>, <<"p","k">>, <<"p","l">>,
    <<"p","m">>, <<"p","n">>, <<"p","r">>, <<"p","s">>, <<"p","t">>,
    <<"p","w">>, <<"p","y">>, <<"q","a">>, <<"r","e">>, <<"r","o">>,
    <<"r","s">>, <<"r","u">>, <<"r","w">>, <<"s","a">>, <<"s","b">>,
    <<"s","c">>, <<"s","d">>, <<"s","e">>, <<"s","g">>, <<"s","h">>,
    <<"s","i">>, <<"s","j">>, <<"s","k">>, <<"s","l">>, <<"s","m">>,
    <<"s","n">>, <<"s","o">>, <<"s","r">>, <<"s","t">>, <<"s","u">>,
    <<"s","v">>, <<"s","y">>, <<"s","z">>, <<"t","c">>, <<"t","d">>,
    <<"t","f">>, <<"t","g">>, <<"t","h">>, <<"t","j">>, <<"t","k">>,
    <<"t","l">>, <<"t","m">>, <<"t","n">>, <<"t","o">>, <<"t","p">>,
    <<"t","r">>, <<"t","t">>, <<"t","v">>, <<"t","w">>, <<"t","z">>,
    <<"u","a">>, <<"u","g">>, <<"u","k">>, <<"u","s">>, <<"u","y">>,
    <<"u","z">>, <<"v","a">>, <<"v","c">>, <<"v","e">>, <<"v","g">>,
    <<"v","i">>, <<"v","n">>, <<"v","u">>, <<"w","f">>, <<"w","s">>,
    <<"y","e">>, <<"y","t">>, <<"z","a">>, <<"z","m">>, <<"z","w">> }

\* \b at the 0-based offset p
WordBoundary(str, p) ==
    (p > 0 /\ IsWord(str[p])) # (p < Len(str) /\ IsWord(str[p + 1]))

\* The end of the maximal run of email (resp. URL) characters from offset p.
RECURSIVE EmailRunEnd(_, _)
EmailRunEnd(str, p) ==
    IF p < Len(str) /\ EmailChar(str[p + 1]) THEN EmailRunEnd(str, p + 1)
    ELSE p

RECURSIVE UrlRunEnd(_, _)
UrlRunEnd(str, p) ==
    IF p < Len(str) /\ UrlChar(str[p + 1]) THEN UrlRunEnd(str, p + 1)
    ELSE p

\* The end of the match of the email pattern at offset p, or -1.  The
\* quantifiers are greedy and the look-ahead accepts the end of the string
\* and any character outside the class, so a match runs to the end of the
\* run of email characters after the @.
email_re(str, p) ==
    LET a == EmailRunEnd(str, p)
        q == a + 1
        r == EmailRunEnd(str, q)
    IN  IF /\ WordBoundary(str, p)
           /\ a > p /\ a < Len(str) /\ str[a + 1] = "@"
           /\ \E k \in (q + 1)..(r - 2) : str[k + 1] = "."
        THEN r ELSE -1

\* The end of the match of the URL pattern at offset p, or -1.
url_re(str, p) ==
    LET r == UrlRunEnd(str, p)
    IN  IF /\ WordBoundary(str, p)
           /\ \E k \in p..(r - 1) :
                 /\ str[k + 1] = "."
                 /\ \E tld \in tlds :
                       /\ k + 1 + Len(tld) <= r
                       /\ OccursAt(str, tld, k + 1)
        THEN r ELSE -1

PatternMatchEnd(name, str, p) ==
    IF name = "Email" THEN email_re(str, p) ELSE url_re(str, p)

\* str(n).zfill(5)
RECURSIVE DecimalDigits(_)
DecimalDigits(n) ==
    LET d == <<"0","1","2","3","4","5","6","7","8","9">>[(n % 10) + 1]
    IN  IF n < 10 THEN <<d>> ELSE DecimalDigits(n \div 10) \o <<d>>

ZFill5(n) ==
    LET ds == DecimalDigits(n)
    IN  IF Len(ds) >= 5 THEN ds ELSE [k \in 1..(5 - Len(ds)) |-> "0"] \o ds

\* Sanitizer.store_token: the placeholder of the stored token number idx
store_token(name, idx) ==
    placeholder_prefix \o PatternNameChars(name) \o ZFill5(idx)

\* Sanitizer.mask: re.sub(pattern_re, self.store_token, string), scanning
\* from offset p with the tokens stored so far.
RECURSIVE mask(_, _, _, _, _)
mask(str, p, name, toks, out) ==
    IF p >= Len(str) THEN [string |-> out, tokens |-> toks]
    ELSE LET r == PatternMatchEnd(name, str, p)
         IN  IF r > p
             THEN mask(str, r, name, Append(toks, Slice(str, p, r)),
                       out \o store_token(name, Len(toks)))
             ELSE mask(str, p + 1, name, toks, out \o <<str[p + 1]>>)

\* Sanitizer.mask_all: reset the stored tokens, then mask with every pattern
\* in the order of self.patterns (Email, URL).
mask_all(str) ==
    LET m1 == mask(str, 0, PatternNames[1], <<>>, <<>>)
    IN  mask(m1.string, 0, PatternNames[2], m1.tokens, <<>>)

\* str.split(' ')
RECURSIVE SplitOnSpace(_, _)
SplitOnSpace(str, word) ==
    IF str = <<>> THEN <<word>>
    ELSE IF Head(str) = " " THEN <<word>> \o SplitOnSpace(Tail(str), <<>>)
    ELSE SplitOnSpace(Tail(str), Append(word, Head(str)))

\* ' '.join(words)
RECURSIVE JoinOnSpace(_)
JoinOnSpace(words) ==
    IF Len(words) = 0 THEN <<>>
    ELSE IF Len(words) = 1 THEN words[1]
    ELSE words[1] \o <<" ">> \o JoinOnSpace(Tail(words))

\* str.strip() for whitespace
RECURSIVE LStrip(_)
LStrip(str) ==
    IF str # <<>> /\ IsSpace(Head(str)) THEN LStrip(Tail(str)) ELSE str

RECURSIVE RStrip(_)
RStrip(str) ==
    IF str # <<>> /\ IsSpace(str[Len(str)])
    THEN RStrip(SubSeq(str, 1, Len(str) - 1)) ELSE str

Strip(str) == LStrip(RStrip(str))

\* int(x): Some(value), or None where int raises ValueError.  int accepts
\* surrounding whitespace around the decimal digits.
RECURSIVE DigitsValue(_)
DigitsValue(ds) ==
    IF ds = <<>> THEN 0
    ELSE 10 * DigitsValue(SubSeq(ds, 1, Len(ds) - 1))
         + (CHOOSE v \in 0..9 : DecimalDigits(v) = <<ds[Len(ds)]>>)

ParseInt(x) ==
    LET y == Strip(x)
    IN  IF y # <<>> /\ \A k \in 1..Len(y) : IsDigit(y[k])
        THEN Some(DigitsValue(y)) ELSE None

\* One word of unmask_all: Some(word after substitution), or None where the
\* statement raises (ValueError from int, IndexError from self.tokens[idx]).
UnmaskWord(word, toks) ==
    IF StartsWith(word, placeholder_prefix)
    THEN LET idx == ParseInt(From(word, Len(word) - 5))
         IN  IF idx = None THEN None
             ELSE IF idx[1] >= Len(toks) THEN None
             ELSE Some(toks[idx[1] + 1])
    ELSE Some(word)

\* Sanitizer.unmask_all: Some(string), or None where it raises.
unmask_all(str, toks) ==
    LET words == SplitOnSpace(str, <<>>)
        subst == [w \in 1..Len(words) |-> UnmaskWord(words[w], toks)]
    IN  IF \E w \in 1..Len(words) : subst[w] = None THEN None
        ELSE Some(JoinOnSpace([w \in 1..Len(words) |-> subst[w][1]]))

\* The strings given to the sanitizer: up to MaxFrags pieces of text.
MaxFrags == 3

MaskFrags == { <<"a","@","b",".","u","s">>, <<"x",".","u","s">>,
               <<" ">>, <<",">>, <<"(">>, <<"/">>, <<"w">>, <<".">>,
               placeholder_prefix }

MaskInputs ==
    UNION {{Concat(fs) : fs \in [1..n -> MaskFrags]} : n \in 0..MaxFrags}

MaskIdle ==
    /\ mpc = "idle" /\ san_tokens = <<>> /\ mask_in = <<>>
    /\ mask_out = <<>> /\ unmask_out = <<>>

\* A caller masks a string.
MaskAll ==
    /\ mpc = "idle"
    /\ \E str \in MaskInputs :
          /\ mask_in' = str
          /\ mask_out' = mask_all(str).string
          /\ san_tokens' = mask_all(str).tokens
    /\ mpc' = "masked"
    /\ UNCHANGED unmask_out

\* The caller unmasks the masked string and gets a string back.
UnmaskAll ==
    /\ mpc = "masked"
    /\ unmask_all(mask_out, san_tokens) # None
    /\ unmask_out' = unmask_all(mask_out, san_tokens)[1]
    /\ mpc' = "unmasked"
    /\ UNCHANGED <<san_tokens, mask_in, mask_out>>

\* The caller unmasks the masked string and unmask_all raises.
UnmaskRaise ==
    /\ mpc = "masked"
    /\ unmask_all(mask_out, san_tokens) = None
    /\ mpc' = "raised"
    /\ UNCHANGED <<san_tokens, mask_in, mask_out, unmask_out>>

NextMask ==
    \/ MaskAll /\ UNCHANGED notMaskVars
    \/ UnmaskAll /\ UNCHANGED notMaskVars
    \/ UnmaskRaise /\ UNCHANGED notMaskVars

-----------------------------------------------------------------------------
(* lexical/tokenizer.py *)

\* Characters outside ASCII that the patterns name.
LSQUO == "~lsquo"
RSQUO == "~rsquo"
LDQUO == "~ldquo"
RDQUO == "~rdquo"
LOW9QUO == "~bdquo"
X91 == "~x91"
X92 == "~x92"
X93 == "~x93"
X94 == "~x94"

\* The end of the run of whitespace from the 0-based offset p.
RECURSIVE SpaceRunEnd(_, _)
SpaceRunEnd(str, p) ==
    IF p < Len(str) /\ IsSpace(str[p + 1]) THEN SpaceRunEnd(str, p + 1) ELSE p

\* The end of the run of word characters (\w) from offset p.
RECURSIVE WordRunEnd(_, _)
WordRunEnd(str, p) ==
    IF p < Len(str) /\ IsWord(str[p + 1]) THEN WordRunEnd(str, p + 1) ELSE p

\* The end of the run of characters of the set cls from offset p.
RECURSIVE RunEnd(_, _, _)
RunEnd(str, p, cls) ==
    IF p < Len(str) /\ str[p + 1] \in cls THEN RunEnd(str, p + 1, cls) ELSE p

\* The character at the 0-based offset p, or the empty string past the end:
\* what a group (.?) captures.
CharAt(str, p) == IF p >= 0 /\ p < Len(str) THEN <<str[p + 1]>> ELSE <<>>

\* nbsp_re: &nbsp; &#160; &#xA0; in any case
nbsp_refs == { <<"&","n","b","s","p",";">>, <<"&","#","1","6","0",";">>,
               <<"&","#","x","a","0",";">> }

RECURSIVE nbsp_sub(_, _, _)
nbsp_sub(str, p, out) ==
    IF p >= Len(str) THEN out
    ELSE IF \E ref \in nbsp_refs : OccursAt(StrLower(str), ref, p)
    THEN nbsp_sub(str, p + 6, out \o <<" ">>)
    ELSE nbsp_sub(str, p + 1, out \o <<str[p + 1]>>)

\* html.unescape for the references &amp; &lt; &gt; &quot; (the only ones
\* that strings over the characters of this model can spell).
html_refs == { <<<<"&","a","m","p",";">>, "&">>, <<<<"&","l","t",";">>, "<">>,
               <<<<"&","g","t",";">>, ">">>,
               <<<<"&","q","u","o","t",";">>, "\"">> }

RECURSIVE html_unescape(_, _, _)
html_unescape(str, p, out) ==
    IF p >= Len(str) THEN out
    ELSE IF \E ref \in html_refs : OccursAt(str, ref[1], p)
    THEN LET ref == CHOOSE ref \in html_refs : OccursAt(str, ref[1], p)
         IN  html_unescape(str, p + Len(ref[1]), out \o <<ref[2]>>)
    ELSE html_unescape(str, p + 1, out \o <<str[p + 1]>>)

\* non_eos_period_re, replaced by ".": \s*\.(?!\s*[\."\'])(?=\.*\w), that is
\* optional whitespace and a period directly followed by a word character.
RECURSIVE non_eos_period_sub(_, _, _)
non_eos_period_sub(str, p, out) ==
    IF p >= Len(str) THEN out
    ELSE LET d == SpaceRunEnd(str, p)
         IN  IF CharAt(str, d) = <<".">> /\ d + 1 < Len(str)
                /\ IsWord(str[d + 2])
             THEN non_eos_period_sub(str, d + 1, out \o <<".">>)
             ELSE non_eos_period_sub(str, p + 1, out \o <<str[p + 1]>>)

\* eos_period_re, replaced by "\1 .": (?<!\.)\.\s*(["\']*)\s*$
EosQuotes == {"\"", "'"}

EosMatchAt(str, p) ==
    /\ CharAt(str, p) = <<".">>
    /\ CharAt(str, p - 1) # <<".">>
    /\ SpaceRunEnd(str, RunEnd(str, SpaceRunEnd(str, p + 1), EosQuotes))
          = Len(str)

eos_period_sub(str) ==
    IF \E p \in 0..(Len(str) - 1) : EosMatchAt(str, p)
    THEN LET p == CHOOSE p \in 0..(Len(str) - 1) :
                     /\ EosMatchAt(str, p)
                     /\ \A q \in 0..(p - 1) : ~EosMatchAt(str, q)
             a == SpaceRunEnd(str, p + 1)
             b == RunEnd(str, a, EosQuotes)
         IN  Slice(str, 0, p) \o Slice(str, a, b) \o <<" ", ".">>
    ELSE str

\* ellipse_re, replaced by " ... ": \.{2,}
RECURSIVE ellipse_sub(_, _, _)
ellipse_sub(str, p, out) ==
    IF p >= Len(str) THEN out
    ELSE LET e == RunEnd(str, p, {"."})
         IN  IF e >= p + 2
             THEN ellipse_sub(str, e, out \o <<" ", ".", ".", ".", " ">>)
             ELSE ellipse_sub(str, p + 1, out \o <<str[p + 1]>>)

IsDigitStr(x) == x # <<>> /\ IsDigit(x[1])

\* Tokenizer.handle_nonnumeric_punc on the groups of a match
handle_nonnumeric_punc(prev_char, symbol, foll_char) ==
    IF IsDigitStr(prev_char) /\ IsDigitStr(foll_char)
    THEN prev_char \o symbol \o foll_char
    ELSE prev_char \o <<" ">> \o symbol \o <<" ">> \o foll_char

\* nonnumeric_punc_re: (.?)([,:;/])(.?), substituted by the handler.  The
\* first group takes the character before a symbol when the scan stands on
\* it, and is empty when the scan stands on the symbol itself.
NonnumericPunc == {",", ":", ";", "/"}

RECURSIVE nonnumeric_punc_sub(_, _, _)
nonnumeric_punc_sub(str, p, out) ==
    IF p >= Len(str) THEN out
    ELSE IF p + 1 < Len(str) /\ str[p + 2] \in NonnumericPunc
    THEN nonnumeric_punc_sub(str, IF p + 3 > Len(str) THEN Len(str) ELSE p + 3,
            out \o handle_nonnumeric_punc(CharAt(str, p), CharAt(str, p + 1),
                                          CharAt(str, p + 2)))
    ELSE IF str[p + 1] \in NonnumericPunc
    THEN nonnumeric_punc_sub(str, IF p + 2 > Len(str) THEN Len(str) ELSE p + 2,
            out \o handle_nonnumeric_punc(<<>>, CharAt(str, p),
                                          CharAt(str, p + 1)))
    ELSE nonnumeric_punc_sub(str, p + 1, out \o <<str[p + 1]>>)

\* punctuation_re, replaced by " \1": ([!?])[!?1]*
RECURSIVE punctuation_sub(_, _, _)
punctuation_sub(str, p, out) ==
    IF p >= Len(str) THEN out
    ELSE IF str[p + 1] \in {"!", "?"}
    THEN punctuation_sub(str, RunEnd(str, p + 1, {"!", "?", "1"}),
                         out \o <<" ", str[p + 1]>>)
    ELSE punctuation_sub(str, p + 1, out \o <<str[p + 1]>>)

\* inner_punctuation_re, replaced by " \1_\2": (\w*)[!?]+(\w+)
RECURSIVE inner_punctuation_sub(_, _, _)
inner_punctuation_sub(str, p, out) ==
    IF p >= Len(str) THEN out
    ELSE LET a == WordRunEnd(str, p)
             b == RunEnd(str, a, {"!", "?"})
             c == WordRunEnd(str, b)
         IN  IF b > a /\ c > b
             THEN inner_punctuation_sub(str, c,
                     out \o <<" ">> \o Slice(str, p, a) \o <<"_">>
                         \o Slice(str, b, c))
             ELSE inner_punctuation_sub(str, p + 1, out \o <<str[p + 1]>>)

\* Tokenizer.handle_hyphens on the groups of a match (whole is group 0)
handle_hyphens(prev_char, repetition, foll_char, whole) ==
    IF Len(repetition) > 0
    THEN prev_char \o <<" ", "-", "-", " ">> \o foll_char
    ELSE IF prev_char = <<" ">> \/ foll_char = <<" ">>
    THEN prev_char \o <<" ", "-", " ">> \o foll_char
    ELSE whole

\* hyphen_re: (.?)\-(\-*)(.?), substituted by the handler
RECURSIVE hyphen_sub(_, _, _)
hyphen_sub(str, p, out) ==
    IF p >= Len(str) THEN out
    ELSE LET h == IF p + 1 < Len(str) /\ str[p + 2] = "-" THEN p + 1
                  ELSE IF str[p + 1] = "-" THEN p
                  ELSE -1
             r == RunEnd(str, h + 1, {"-"})
             e == IF r < Len(str) THEN r + 1 ELSE r
         IN  IF h >= 0
             THEN hyphen_sub(str, e,
                     out \o handle_hyphens(Slice(str, p, h),
                                           Slice(str, h + 1, r),
                                           CharAt(str, r), Slice(str, p, e)))
             ELSE hyphen_sub(str, p + 1, out \o <<str[p + 1]>>)

\* parens_re, replaced by " \1 ": ([\[\]\(\)\{\}])
Parens == {"[", "]", "(", ")", "{", "}"}

RECURSIVE parens_sub(_, _, _)
parens_sub(str, p, out) ==
    IF p >= Len(str) THEN out
    ELSE IF str[p + 1] \in Parens
    THEN parens_sub(str, p + 1, out \o <<" ", str[p + 1], " ">>)
    ELSE parens_sub(str, p + 1, out \o <<str[p + 1]>>)

\* double_quotes_re, replaced by ' " ': two apostrophes, two grave accents,
\* a run of ", or one of the typographic double quotes.
DoubleQuoteChars == {LDQUO, RDQUO, X93, X94, LOW9QUO}

DoubleQuoteEnd(str, p) ==
    IF OccursAt(str, <<"'", "'">>, p) THEN p + 2
    ELSE IF OccursAt(str, <<BACKTICK, BACKTICK>>, p) THEN p + 2
    ELSE IF CharAt(str, p) = <<"\"">> THEN RunEnd(str, p, {"\""})
    ELSE IF str[p + 1] \in DoubleQuoteChars THEN p + 1
    ELSE -1

RECURSIVE double_quotes_sub(_, _, _)
double_quotes_sub(str, p, out) ==
    IF p >= Len(str) THEN out
    ELSE LET e == DoubleQuoteEnd(str, p)
         IN  IF e > p
             THEN double_quotes_sub(str, e, out \o <<" ", "\"", " ">>)
             ELSE double_quotes_sub(str, p + 1, out \o <<str[p + 1]>>)

\* _init_apostrophe_re
single_quotes == {"'", LSQUO, RSQUO, X91, X92}
suffixes == << <<"s">>, <<"t">>, <<"m">>, <<"d">>, <<"r","e">>, <<"v","e">>,
               <<"l","l">> >>

\* (suffix\b) at offset p under IGNORECASE: the length of the suffix, or 0
SuffixLenAt(str, p) ==
    LET ok(k) == /\ OccursAt(StrLower(str), suffixes[k], p)
                 /\ WordBoundary(str, p + Len(suffixes[k]))
    IN  IF \E k \in 1..Len(suffixes) : ok(k)
        THEN Len(suffixes[CHOOSE k \in 1..Len(suffixes) :
                             ok(k) /\ \A m \in 1..(k - 1) : ~ok(m)])
        ELSE 0

\* Tokenizer.handle_apostrophes on the groups of a match: the replacement
\* (the empty string where the method returns None) and the new open_quote.
handle_apostrophes(pp, pc, contraction, foll, whole, oq) ==
    LET R(x, q) == [text |-> x, open_quote |-> q]
        Q == <<"'">>
    IN  IF contraction # <<>>
        THEN IF contraction = <<"t">>
             THEN IF pc = <<"n">> THEN R(pp \o <<" ", "n", "'", "t">>, oq)
                  ELSE IF pp = <<"n">> /\ pc = <<" ">>
                  THEN R(<<" ", "n", "'", "t">>, oq)
                  ELSE R(<<>>, oq)
             ELSE IF contraction = <<"T">>
             THEN IF pc = <<"N">> THEN R(pp \o <<" ", "N", "'", "T">>, oq)
                  ELSE IF pp = <<"N">> /\ pc = <<" ">>
                  THEN R(<<" ", "N", "'", "T">>, oq)
                  ELSE R(<<>>, oq)
             ELSE R(pp \o pc \o <<" ">> \o Q \o contraction, oq)
        ELSE IF pc = <<>> \/ IsSpace(pc[1])
        THEN R(pp \o pc \o Q \o <<" ">> \o foll, TRUE)
        ELSE IF foll = <<>> \/ IsSpace(foll[1])
        THEN IF oq THEN R(pp \o pc \o <<" ">> \o Q \o foll, FALSE)
             ELSE IF pc = <<"s">> THEN R(pp \o pc \o Q \o <<"s">> \o foll, oq)
             ELSE IF pc = <<"S">> THEN R(pp \o pc \o Q \o <<"S">> \o foll, oq)
             ELSE IF pc = <<"n">> /\ pp = <<"i">>
             THEN R(pp \o pc \o <<"g">> \o foll, oq)
             ELSE IF pc = <<"N">> /\ pp = <<"I">>
             THEN R(pp \o pc \o <<"G">> \o foll, oq)
             ELSE R(whole, oq)
        ELSE R(whole, oq)

\* re.sub(apostrophe_re, handle_apostrophes, string): (.?)(.?) then a single
\* quote then a contraction suffix or (.?).  The two leading groups take the
\* two characters before the quote when the scan stands two before it, one
\* (in the first group) when it stands one before it, none when it stands
\* on the quote.
RECURSIVE apostrophe_sub(_, _, _, _)
apostrophe_sub(str, p, out, oq) ==
    IF p >= Len(str) THEN [text |-> out, open_quote |-> oq]
    ELSE LET a == IF p + 2 < Len(str) /\ str[p + 3] \in single_quotes
                  THEN p + 2
                  ELSE IF p + 1 < Len(str) /\ str[p + 2] \in single_quotes
                  THEN p + 1
                  ELSE IF str[p + 1] \in single_quotes THEN p
                  ELSE -1
             pp == IF a > p THEN CharAt(str, p) ELSE <<>>
             pc == IF a > p + 1 THEN CharAt(str, p + 1) ELSE <<>>
             n  == SuffixLenAt(str, a + 1)
             e  == IF n > 0 THEN a + 1 + n
                   ELSE IF a + 1 < Len(str) THEN a + 2 ELSE a + 1
             h  == handle_apostrophes(pp, pc, Slice(str, a + 1, a + 1 + n),
                      IF n > 0 THEN <<>> ELSE CharAt(str, a + 1),
                      Slice(str, p, e), oq)
         IN  IF a >= 0
             THEN apostrophe_sub(str, e, out \o h.text, h.open_quote)
             ELSE apostrophe_sub(str, p + 1, out \o <<str[p + 1]>>, oq)

\* unexpected_re, removed: [\\_~^*\`|]
Unexpected == {"\\", "_", "~", "^", "*", BACKTICK, "|"}

unexpected_sub(str) == SelectSeq(str, LAMBDA c : c \notin Unexpected)

\* str.split(): the maximal runs of non-whitespace characters
RECURSIVE WhitespaceSplit(_, _)
WhitespaceSplit(str, word) ==
    IF str = <<>> THEN IF word = <<>> THEN <<>> ELSE <<word>>
    ELSE IF IsSpace(Head(str))
    THEN (IF word = <<>> THEN <<>> ELSE <<word>>)
         \o WhitespaceSplit(Tail(str), <<>>)
    ELSE WhitespaceSplit(Tail(str), Append(word, Head(str)))

\* The rule cascade of Tokenizer.tokenize between the calls to the
\* sanitizer: the string before the final split and the new open_quote.
Cascade(str, oq) ==
    LET s1  == nbsp_sub(str, 0, <<>>)
        s2  == html_unescape(s1, 0, <<>>)
        s3  == non_eos_period_sub(s2, 0, <<>>)
        s4  == eos_period_sub(s3)
        s5  == ellipse_sub(s4, 0, <<>>)
        s6  == nonnumeric_punc_sub(s5, 0, <<>>)
        s7  == punctuation_sub(s6, 0, <<>>)
        s8  == inner_punctuation_sub(s7, 0, <<>>)
        s9  == hyphen_sub(s8, 0, <<>>)
        s10 == parens_sub(s9, 0, <<>>)
        s11 == double_quotes_sub(s10, 0, <<>>)
        s12 == apostrophe_sub(s11, 0, <<>>, oq)
    IN  [text |-> unexpected_sub(s12.text), open_quote |-> s12.open_quote]

\* Tokenizer.tokenize.  The value mask_all returns is dropped (line 94): the
\* cascade runs on the string as given; mask_all only replaces the
\* sanitizer's stored tokens.  The value unmask_all returns is dropped too
\* (line 154), but the call raises where unmask_all raises.
tokenize(str, oq) ==
    LET stored == mask_all(str).tokens
        c      == Cascade(str, oq)
    IN  [raised     |-> unmask_all(c.text, stored) = None,
         tokens     |-> WhitespaceSplit(c.text, <<>>),
         open_quote |-> c.open_quote,
         san_tokens |-> stored]

\* The strings given to the tokenizer: up to MaxTokFrags pieces of text.
MaxTokFrags == 2

TokFrags == { <<"1">>, <<"1", ",", "1">>, <<",", "1">>, <<"/">>, <<"a">>,
              <<" ">>, <<"'">>, <<"x",".","u","s">>,
              <<"a","@","b",".","u","s">>, placeholder_prefix,
              <<"!">>, <<"?">> }

TokInputs ==
    UNION {{Concat(fs) : fs \in [1..n -> TokFrags]} : n \in 0..MaxTokFrags}

\* tokenize on every input and value of open_quote, computed once
TokenizeCalls ==
    { [string |-> str, open_quote |-> oq, result |-> tokenize(str, oq)] :
          str \in TokInputs, oq \in BOOLEAN }

TokIdle ==
    /\ tpc = "idle" /\ open_quote = FALSE /\ tok_in = <<>> /\ tokens = <<>>

\* A call of tokenize that returns its tokens.
Tokenize ==
    /\ tpc = "idle"
    /\ \E call \in TokenizeCalls :
          /\ call.open_quote = open_quote
          /\ ~call.result.raised
          /\ tok_in' = call.string
          /\ tokens' = call.result.tokens
          /\ open_quote' = call.result.open_quote
          /\ san_tokens' = call.result.san_tokens
    /\ tpc' = "returned"

\* A call of tokenize in which unmask_all raises: the sanitizer and
\* open_quote have been written, no tokens are returned.
TokenizeRaise ==
    /\ tpc = "idle"
    /\ \E call \in TokenizeCalls :
          /\ call.open_quote = open_quote
          /\ call.result.raised
          /\ tok_in' = call.string
          /\ open_quote' = call.result.open_quote
          /\ san_tokens' = call.result.san_tokens
    /\ tpc' = "raised"
    /\ UNCHANGED tokens

\* The caller is done with the result; the Tokenizer object lives on.
TokenizeDone ==
    /\ tpc \in {"returned", "raised"}
    /\ tpc' = "idle" /\ tok_in' = <<>> /\ tokens' = <<>>
    /\ UNCHANGED <<open_quote, san_tokens>>

NextTok ==
    \/ Tokenize /\ UNCHANGED notTokVars
    \/ TokenizeRaise /\ UNCHANGED notTokVars
    \/ TokenizeDone /\ UNCHANGED notTokVars

-----------------------------------------------------------------------------
(* sentence.py *)

\* alnum_re.sub('', raw.lower()): the text without case, punctuation,
\* underscores and spacing.
stripped(raw) == SelectSeq(StrLower(raw), LAMBDA c : IsWord(c) /\ c # "_")

\* Sentence.__init__(raw=raw): the new object and what tokenize leaves in
\* the default Tokenizer.  The call raises where tokenize raises.
Sentence(raw, oq) ==
    LET r == tokenize(raw, oq)
    IN  [raised     |-> r.raised,
         sentence   |-> [raw |-> raw, tokens |-> r.tokens,
                         stripped |-> stripped(raw)],
         open_quote |-> r.open_quote,
         san_tokens |-> r.san_tokens]

\* Sentence.is_identical_to
is_identical_to(self, other) == self.stripped = other.stripped

\* Sentence.is_contained_in: str in str
is_contained_in(self, other) == Contains(other.stripped, self.stripped)

\* The tokens is_subseq_of looks for: those that start or end alphanumeric.
IsContentToken(token) == IsAlnum(token[Len(token)]) \/ IsAlnum(token[1])

\* any(token.lower() == other_token.lower() for other_token in iterator):
\* the number of tokens of other the iterator has yielded after the search
\* from position k, found or not.
RECURSIVE AdvanceTo(_, _, _)
AdvanceTo(token, other_tokens, k) ==
    IF k >= Len(other_tokens) THEN [found |-> FALSE, pos |-> k]
    ELSE IF StrLower(other_tokens[k + 1]) = StrLower(token)
    THEN [found |-> TRUE, pos |-> k + 1]
    ELSE AdvanceTo(token, other_tokens, k + 1)

\* Sentence.is_subseq_of: all(...) over the content tokens of self, with
\* one iterator over other.tokens shared by all the searches.
RECURSIVE SubseqFrom(_, _, _, _)
SubseqFrom(toks, t, other_tokens, k) ==
    IF t > Len(toks) THEN TRUE
    ELSE IF ~IsContentToken(toks[t])
    THEN SubseqFrom(toks, t + 1, other_tokens, k)
    ELSE LET a == AdvanceTo(toks[t], other_tokens, k)
         IN  a.found /\ SubseqFrom(toks, t + 1, other_tokens, a.pos)

\* A variant in which every search starts from the first token of other
is_subseq_of_restarting(self, other) ==
    \A t \in 1..Len(self.tokens) :
       IsContentToken(self.tokens[t])
          => AdvanceTo(self.tokens[t], other.tokens, 0).found

is_subseq_of(self, other) == SubseqFrom(self.tokens, 1, other.tokens, 0)

\* The raw texts of the sentences: up to MaxSentFrags pieces.
MaxSentFrags == 2

SentFrags == { <<"a">>, <<"B">>, <<" ", "b">>, <<",">>, <<"'">> }

SentInputs ==
    UNION {{Concat(fs) : fs \in [1..n -> SentFrags]} : n \in 0..MaxSentFrags}

\* Sentence(raw=...) on every input and value of open_quote, computed once
SentenceCalls ==
    { [raw |-> raw, open_quote |-> oq, result |-> Sentence(raw, oq)] :
          raw \in SentInputs, oq \in BOOLEAN }

NoSentence == [raw |-> <<>>, tokens |-> <<>>, stripped |-> <<>>]

SentIdle ==
    /\ cpc = "idle" /\ summ_sent = NoSentence /\ doc_sent = NoSentence
    /\ identical = FALSE /\ contained = FALSE /\ subseq = FALSE

\* A summary sentence is constructed from its raw text.
NewSummarySentence ==
    /\ cpc = "idle"
    /\ \E call \in SentenceCalls :
          /\ call.open_quote = open_quote
          /\ ~call.result.raised
          /\ summ_sent' = call.result.sentence
          /\ open_quote' = call.result.open_quote
          /\ san_tokens' = call.result.san_tokens
    /\ cpc' = "summary"
    /\ UNCHANGED <<doc_sent, identical, contained, subseq>>

\* A document sentence is constructed from its raw text.
NewDocSentence ==
    /\ cpc = "summary"
    /\ \E call \in SentenceCalls :
          /\ call.open_quote = open_quote
          /\ ~call.result.raised
          /\ doc_sent' = call.result.sentence
          /\ open_quote' = call.result.open_quote
          /\ san_tokens' = call.result.san_tokens
    /\ cpc' = "pair"
    /\ UNCHANGED <<summ_sent, identical, contained, subseq>>

\* The three extractiveness tests on the pair.
Compare ==
    /\ cpc = "pair"
    /\ identical' = is_identical_to(summ_sent, doc_sent)
    /\ contained' = is_contained_in(summ_sent, doc_sent)
    /\ subseq' = is_subseq_of(summ_sent, doc_sent)
    /\ cpc' = "compared"
    /\ UNCHANGED <<summ_sent, doc_sent, open_quote, san_tokens>>

\* The pair is dropped; the default Tokenizer lives on.
DropPair ==
    /\ cpc = "compared"
    /\ cpc' = "idle" /\ summ_sent' = NoSentence /\ doc_sent' = NoSentence
    /\ identical' = FALSE /\ contained' = FALSE /\ subseq' = FALSE
    /\ UNCHANGED <<open_quote, san_tokens>>

NextSent ==
    \/ NewSummarySentence /\ UNCHANGED notSentVars
    \/ NewDocSentence /\ UNCHANGED notSentVars
    \/ Compare /\ UNCHANGED notSentVars
    \/ DropPair /\ UNCHANGED notSentVars

-----------------------------------------------------------------------------
(* doc.py: the text of a document and its preprocessing *)

\* Characters of unicode_subs that have no ASCII spelling
ACUTE == "~acute"
X86 == "~x86"
X95 == "~x95"
X96 == "~x96"
X97 == "~x97"
XA9 == "~xa9"
XAD == "~xad"
XB2 == "~xb2"
XB7 == "~xb7"
XBD == "~xbd"
XBE == "~xbe"
EMDASH == "~u2014"

\* str.find(sub, a): the lowest 0-based offset >= a where sub occurs, or -1
Find(str, sub, a) ==
    IF \E k \in a..Len(str) : OccursAt(str, sub, k)
    THEN CHOOSE k \in a..Len(str) :
            /\ OccursAt(str, sub, k)
            /\ \A m \in a..(k - 1) : ~OccursAt(str, sub, m)
    ELSE -1

\* str.replace(old, new) for a non-empty old: every non-overlapping
\* occurrence, left to right
RECURSIVE Replace(_, _, _, _, _)
Replace(str, old, new, p, out) ==
    IF p >= Len(str) THEN out
    ELSE IF OccursAt(str, old, p)
    THEN Replace(str, old, new, p + Len(old), out \o new)
    ELSE Replace(str, old, new, p + 1, out \o <<str[p + 1]>>)

\* " {0} ".format(para)
Padded(para) == <<" ">> \o para \o <<" ">>

\* str.isupper(): some cased character and no lowercase one
IsUpperStr(str) ==
    /\ \E k \in 1..Len(str) : IsUpper(str[k])
    /\ \A k \in 1..Len(str) : ~IsLower(str[k])

\* The tables of resources/__init__.py.  BAD_PREFIXES is a list of
\* prefixes; the three stitch tables map a flawed form to a tuple whose
\* first field is the corrected form.
BAD_PREFIXES == << <<"L", "E", "A", "D", ":">> >>
STITCHES_SUMM == [key |-> <<"c", "d">>, value |-> <<"c", " ", "d">>]
AMBIGUOUS_STITCHES_SUMM == [key |-> <<"a", "b">>, value |-> <<"a", " ", "b">>]
SPLITS_DOC == [key |-> <<"e", " ", "f">>, value |-> <<"e", "f">>]

\* A variant that returns the new first paragraph alone
FixCapReplaceHead(tgt_paras, src, ii) ==
    LET tgt == tgt_paras[1]
    IN  IF Slice(tgt, 0, ii) = Slice(src, 0, ii) THEN tgt_paras
        ELSE <<Slice(src, 0, ii) \o From(tgt, ii)>>

\* NYTDoc.fix_capitalization: the statements after the loop condition has
\* held and the span tgt[:i] has been extended as far as it goes.
FixCapReplace(tgt_paras, src, ii) ==
    LET tgt == tgt_paras[1]
    IN  IF Slice(tgt, 0, ii) = Slice(src, 0, ii) THEN tgt_paras
        ELSE <<Slice(src, 0, ii) \o From(tgt, ii)>> \o Tail(tgt_paras)

\* The while loop of fix_capitalization from the offset i
RECURSIVE FixCapLoop(_, _, _)
FixCapLoop(tgt_paras, src, ii) ==
    LET tgt == tgt_paras[1]
        jj   == ii + 1 + Find(From(tgt, ii + 1), <<" ">>, 0)
    IN  IF StrUpper(Slice(tgt, 0, ii)) # StrUpper(Slice(src, 0, ii))
        THEN tgt_paras
        ELSE IF Slice(tgt, 0, ii) = StrUpper(Slice(tgt, 0, ii))
        THEN IF ii # jj THEN FixCapLoop(tgt_paras, src, jj)
             ELSE IF StrUpper(tgt) = StrUpper(Slice(src, 0, Len(tgt)))
             THEN FixCapReplace(tgt_paras, src, Len(tgt))
             ELSE tgt_paras
        ELSE FixCapReplace(tgt_paras, src, ii)

\* NYTDoc.fix_capitalization: Some(paragraphs), or None where tgt_paras[0]
\* or src_paras[0] raises IndexError.
fix_capitalization(tgt_paras, src_paras) ==
    IF tgt_paras = <<>> \/ src_paras = <<>> THEN None
    ELSE LET tgt == tgt_paras[1]
             ii   == Find(tgt, <<" ">>, 0)
         IN  IF ii = -1 \/ (IsAlnum(tgt[Len(tgt)]) /\ IsUpperStr(tgt))
             THEN Some(tgt_paras)
             ELSE Some(FixCapLoop(tgt_paras, src_paras[1], ii))

\* The search of conditional_replace for the replacement in one source
\* paragraph, from the offset i that find returned relative to j:
\* "found", "absent", or "raise" where para[j+1] raises IndexError.
RECURSIVE SearchPara(_, _, _, _)
SearchPara(para, replacement, irel, j0) ==
    IF irel = -1 THEN "absent"
    ELSE LET ii == irel + j0
             jj == ii + Len(replacement)
         IN  IF ii = 0 \/ ~IsAlnum(para[ii])
             THEN IF jj = Len(para) THEN "found"
                  ELSE IF jj + 1 >= Len(para) THEN "raise"
                  ELSE IF ~IsAlnum(para[jj + 2]) THEN "found"
                  ELSE SearchPara(para, replacement,
                                  Find(From(para, jj), replacement, 0), jj)
             ELSE SearchPara(para, replacement,
                             Find(From(para, jj), replacement, 0), jj)

\* The loop over src_paras: stops at the first paragraph that has a valid
\* mention, or that raises.
RECURSIVE SearchParas(_, _)
SearchParas(src_paras, replacement) ==
    IF src_paras = <<>> THEN "absent"
    ELSE LET r == SearchPara(Head(src_paras), replacement,
                             Find(Head(src_paras), replacement, 0), 0)
         IN  IF r = "absent" THEN SearchParas(Tail(src_paras), replacement)
             ELSE r

\* NYTDoc.conditional_replace for a table of one entry (sub_regex is the
\* key between two spaces): Some(paragraphs), or None where it raises.
conditional_replace(tgt_paras, src_paras, sub_table) ==
    LET match == Padded(sub_table.key)
        found == SearchParas(src_paras, sub_table.value)
    IN  IF \A p \in 1..Len(tgt_paras) : ~Contains(Padded(tgt_paras[p]), match)
        THEN Some(tgt_paras)
        ELSE IF found = "raise" THEN None
        ELSE IF found = "absent" THEN Some(tgt_paras)
        ELSE Some([p \in 1..Len(tgt_paras) |->
                     Strip(Replace(Padded(tgt_paras[p]), match,
                                   Padded(sub_table.value), 0, <<>>))])

\* The offset after a page marker that starts with the "[" at offset q,
\* or -1: \[(?:Page )?[A-Z]?[0-9]{1,2}\]
MarkerEndAt(str, q) ==
    LET p1 == q + 1
        p2 == IF OccursAt(str, <<"P", "a", "g", "e", " ">>, p1) THEN p1 + 5 ELSE p1
        p3 == IF CharAt(str, p2) # <<>> /\ IsUpper(str[p2 + 1]) THEN p2 + 1
              ELSE p2
        d  == RunEnd(str, p3, DigitChars)
    IN  IF CharAt(str, q) = <<"[">> /\ d > p3 /\ d <= p3 + 2
           /\ CharAt(str, d) = <<"]">>
        THEN d + 1 ELSE -1

\* The offset where pagemarker_re matches (the marker, the spaces before it
\* and [. ]* up to the end of the paragraph), or -1.
PageMarkerStart(str) ==
    LET ok(q) == /\ MarkerEndAt(str, q) >= 0
                 /\ RunEnd(str, MarkerEndAt(str, q), {".", " "}) = Len(str)
        starts == { p \in 0..(Len(str) - 1) :
                      \E q \in p..(Len(str) - 1) :
                         ok(q) /\ \A k \in (p + 1)..q : str[k] = " " }
    IN  IF starts = {} THEN -1
        ELSE CHOOSE p \in starts : \A r \in starts : p <= r

\* pagemarker_re.sub(' ', para).strip() where the pattern is found
pagemarker_sub(para) ==
    LET p == PageMarkerStart(para)
    IN  IF p = -1 THEN para ELSE Strip(Slice(para, 0, p) \o <<" ">>)

\* The offset where authmarker_re matches ( *\[\?\]\[.*), or -1
AuthMarkerStart(str) ==
    LET starts == { p \in 0..(Len(str) - 1) :
                      \E q \in p..(Len(str) - 1) :
                         /\ OccursAt(str, <<"[", "?", "]", "[">>, q)
                         /\ \A k \in (p + 1)..q : str[k] = " " }
    IN  IF starts = {} THEN -1
        ELSE CHOOSE p \in starts : \A r \in starts : p <= r

\* authmarker_re.sub('', para).strip() where the pattern is found
authmarker_sub(para) ==
    LET p == AuthMarkerStart(para)
    IN  IF p = -1 THEN para ELSE Strip(Slice(para, 0, p))

\* dotcom_fix_re.sub('\\1', para): (at +[^ ]+) (?=\.com|\.org|\.net)
RECURSIVE dotcom_fix_sub(_, _, _)
dotcom_fix_sub(str, p, out) ==
    IF p >= Len(str) THEN out
    ELSE LET a == RunEnd(str, p + 2, {" "})
             b == IF a < Len(str) /\ str[a + 1] # " "
                  THEN CHOOSE e \in (a + 1)..Len(str) :
                          /\ \A k \in (a + 1)..e : str[k] # " "
                          /\ (e = Len(str) \/ str[e + 1] = " ")
                  ELSE a
         IN  IF /\ OccursAt(str, <<"a", "t">>, p) /\ a > p + 2 /\ b > a
                /\ CharAt(str, b) = <<" ">>
                /\ \/ OccursAt(str, <<".", "c", "o", "m">>, b + 1)
                   \/ OccursAt(str, <<".", "o", "r", "g">>, b + 1)
                   \/ OccursAt(str, <<".", "n", "e", "t">>, b + 1)
             THEN dotcom_fix_sub(str, b + 1, out \o Slice(str, p, b))
             ELSE dotcom_fix_sub(str, p + 1, out \o <<str[p + 1]>>)

\* prefixes_re.sub('', para): the first prefix of the list that starts the
\* paragraph is removed with the whitespace after it
prefixes_sub(para) ==
    IF \E k \in 1..Len(BAD_PREFIXES) : StartsWith(para, BAD_PREFIXES[k])
    THEN LET k == CHOOSE k \in 1..Len(BAD_PREFIXES) :
                     /\ StartsWith(para, BAD_PREFIXES[k])
                     /\ \A m \in 1..(k - 1) : ~StartsWith(para, BAD_PREFIXES[m])
         IN  From(para, SpaceRunEnd(para, Len(BAD_PREFIXES[k])))
    ELSE para

\* unicode_subs
unicode_sub(c) ==
    IF c \in {BACKTICK, ACUTE, LSQUO, RSQUO, X91, X92} THEN <<"'">>
    ELSE IF c \in {"\"", LDQUO, RDQUO, X93, X94, LOW9QUO} THEN <<"'", "'">>
    ELSE IF c = X86 THEN <<"+">>
    ELSE IF c \in {X95, NBSP} THEN <<" ">>
    ELSE IF c \in {X96, X97, XAD, EMDASH} THEN <<"-", "-">>
    ELSE IF c = XA9 THEN <<"$", ";">>
    ELSE IF c = XB2 THEN <<"2">>
    ELSE IF c = XB7 THEN <<".">>
    ELSE IF c = XBD THEN <<"1", "/", "2">>
    ELSE IF c = XBE THEN <<"3", "/", "4">>
    ELSE <<c>>

\* para.translate(unicode_subs)
translate(para) == Concat([k \in 1..Len(para) |-> unicode_sub(para[k])])

\* extraneous_re.search(para): (?:[\?\!]|[\?\!\'\.]\'\')\s*\.$
extraneous_search(para) ==
    /\ Len(para) >= 2 /\ para[Len(para)] = "."
    /\ LET body == RStrip(Slice(para, 0, Len(para) - 1))
           n    == Len(body)
       IN  \/ n >= 1 /\ body[n] \in {"?", "!"}
           \/ /\ n >= 3 /\ body[n] = "'" /\ body[n - 1] = "'"
              /\ body[n - 2] \in {"?", "!", "'", "."}

\* hyphenated_re.sub('', para): (?<=[^ \-]\-) (?!and |\(?or |to )
hyphenated_match(str, p) ==
    /\ str[p + 1] = " " /\ p >= 2
    /\ str[p] = "-" /\ str[p - 1] \notin {" ", "-"}
    /\ ~OccursAt(str, <<"a", "n", "d", " ">>, p + 1) /\ ~OccursAt(str, <<"o", "r", " ">>, p + 1)
    /\ ~OccursAt(str, <<"(", "o", "r", " ">>, p + 1) /\ ~OccursAt(str, <<"t", "o", " ">>, p + 1)

hyphenated_sub(para) ==
    LET keep == { p \in 0..(Len(para) - 1) : ~hyphenated_match(para, p) }
        F[p \in 0..Len(para)] ==
            IF p = Len(para) THEN <<>>
            ELSE (IF p \in keep THEN <<para[p + 1]>> ELSE <<>>) \o F[p + 1]
    IN  F[0]

\* singledash_re.sub(' -- ', para)
singledash_sub(para) == Replace(para, <<" ", "-", " ">>, <<" ", "-", "-", " ">>, 0, <<>>)

\* stitches_summ_re.sub(...) on the padded paragraph, then strip()
stitches_summ_sub(para) ==
    Strip(Replace(Padded(para), Padded(STITCHES_SUMM.key),
                  Padded(STITCHES_SUMM.value), 0, <<>>))

\* A paragraph on its way through a preprocessing loop: p is its index in
\* the list given to the function (0-based, as enumerate counts), para its
\* text.
Enumerate(paragraphs) ==
    [k \in 1..Len(paragraphs) |-> [p |-> k - 1, para |-> paragraphs[k]]]

Texts(items) == [k \in 1..Len(items) |-> items[k].para]
Indices(items) == [k \in 1..Len(items) |-> items[k].p]

\* The body of the loop of preprocess_full_text after the two early exits
full_text_para(para) == authmarker_sub(pagemarker_sub(para))

\* A variant that adds the all-caps paragraphs back after the paragraph
\* that follows them
AddBackAfter(processed_paras, allcaps_paras, item) ==
    processed_paras \o <<item>> \o allcaps_paras

\* processed_paras.extend(allcaps_paras); processed_paras.append(para)
AddBack(processed_paras, allcaps_paras, item) ==
    processed_paras \o allcaps_paras \o <<item>>

\* The loop of preprocess_full_text over what is left of the paragraphs
RECURSIVE FullTextLoop(_, _, _)
FullTextLoop(items, processed_paras, allcaps_paras) ==
    IF items = <<>> THEN processed_paras
    ELSE LET it   == Head(items)
             para == full_text_para(it.para)
         IN  IF StartsWith(it.para, <<"C", "o", "r", "r", "e", "c", "t", "i", "o", "n", ":">>) THEN processed_paras
             ELSE IF StrUpper(it.para) = it.para
             THEN FullTextLoop(Tail(items), processed_paras,
                               Append(allcaps_paras, it))
             ELSE IF para # <<>>
             THEN FullTextLoop(Tail(items),
                     AddBack(processed_paras, allcaps_paras,
                             [p |-> it.p,
                              para |-> dotcom_fix_sub(para, 0, <<>>)]),
                     <<>>)
             ELSE FullTextLoop(Tail(items), processed_paras, allcaps_paras)

\* NYTDoc.preprocess_full_text, each paragraph of the result with the index
\* it had in the list given
preprocess_full_text(paragraphs) ==
    FullTextLoop(Enumerate(paragraphs), <<>>, <<>>)

\* The body of the loop of preprocess_online_lead up to the test para != ''
online_lead_head(p, para) ==
    LET a == IF p = 0 THEN LStrip(prefixes_sub(para)) ELSE para
        b == authmarker_sub(pagemarker_sub(translate(a)))
    IN  IF extraneous_search(b) THEN Slice(b, 0, Len(b) - 1) ELSE b

\* ... and after it
online_lead_tail(para) ==
    singledash_sub(hyphenated_sub(stitches_summ_sub(
        dotcom_fix_sub(para, 0, <<>>))))

\* NYTDoc.preprocess_online_lead, with the indices as above
preprocess_online_lead(paragraphs) ==
    LET heads == [k \in 1..Len(paragraphs) |->
                    [p |-> k - 1,
                     para |-> online_lead_head(k - 1, paragraphs[k])]]
        kept  == SelectSeq(heads, LAMBDA it : it.para # <<>>)
    IN  [k \in 1..Len(kept) |->
            [p |-> kept[k].p, para |-> online_lead_tail(kept[k].para)]]

\* NYTDoc.preprocess_all: Some of the two processed fields, or None where
\* fix_capitalization or conditional_replace raises IndexError.
preprocess_all(full_text_paras, online_lead_paras) ==
    LET ft1 == fix_capitalization(full_text_paras, online_lead_paras)
        ol1 == conditional_replace(online_lead_paras, ft1[1],
                                   AMBIGUOUS_STITCHES_SUMM)
        ft2 == conditional_replace(ft1[1], ol1[1], SPLITS_DOC)
    IN  IF ft1 = None THEN None
        ELSE IF ol1 = None THEN None
        ELSE IF ft2 = None THEN None
        ELSE Some([full_text   |-> preprocess_full_text(ft2[1]),
                   online_lead |-> preprocess_online_lead(ol1[1])])

\* The paragraphs documents are made of, and the documents: each of the
\* two preprocessed fields holds 1 to MaxParas paragraphs.
MaxParas == 2

FullParas == { <<"I", "T", " ", "i", "s", " ", "a", " ", "b", " ", "e", " ", "f", ".">>, <<"N", "O", "T", "E", "S">>, <<"C", "o", "r", "r", "e", "c", "t", "i", "o", "n", ":", " ", "x">>,
               <<"A", "b", " ", "[", "B", "2", "]", " ", "[", "A", "1", "]">> }

LeadParas == { <<"L", "E", "A", "D", ":", " ", "I", "t", " ", "i", "s", " ", "a", "b", " ", "e", "f", ".">>, <<"a", " ", "-", " ", "-", " ", "b">>, <<"[", "?", "]", "[", "y">>, <<"I", "t", " ", "i", "s", " ", "a", "b", ".">> }

FullTexts == UNION {[1..n -> FullParas] : n \in 1..MaxParas}
OnlineLeads == UNION {[1..n -> LeadParas] : n \in 1..MaxParas}

FieldNames == {"abstract", "lead", "full_text", "online_lead"}

NoCache == [name \in FieldNames |-> None]

DocIdle ==
    /\ dpc = "none" /\ full_text = <<>> /\ online_lead = <<>>
    /\ abstract = <<>> /\ lead = <<>>
    /\ has_cache = FALSE /\ cache = NoCache
    /\ runs = 0 /\ calls = 0 /\ returned = <<>> /\ last_run = None

\* NYTDoc.parse_story: the fields of a new document
NewDocument(fts, ols) ==
    /\ dpc = "none"
    /\ \E ft \in fts, ol \in ols :
          /\ full_text' = ft /\ online_lead' = ol
          /\ abstract' = <<<<"A", "b", ".">>>> /\ lead' = <<<<"I", "T", " ", "i", "s", ".">>>>
    /\ dpc' = "loaded"
    /\ UNCHANGED <<has_cache, cache, runs, calls, returned, last_run>>

parse_story == NewDocument(FullTexts, OnlineLeads)

\* ... of a document with one paragraph in each field
parse_short_story ==
    NewDocument({<<para>> : para \in FullParas},
                {<<para>> : para \in LeadParas})

\* self.summaries[field] / self.full_text
Field(field) ==
    IF field = "full_text" THEN full_text
    ELSE IF field = "online_lead" THEN online_lead
    ELSE IF field = "abstract" THEN abstract
    ELSE lead

\* The condition under which get_cached_sentences runs preprocess_all
\* (preprocessing is left at its default True)
MustPreprocess(cache_name) ==
    \/ ~has_cache
    \/ cache_name = Some("full_text") /\ cache["online_lead"] = None
    \/ cache_name = Some("online_lead") /\ cache["full_text"] = None

\* self.cache holds an entry under cache_name
CacheHit(cache_name) ==
    cache_name # None /\ has_cache /\ cache[cache_name[1]] # None

\* get_cached_sentences from the point where it is known whether the cache
\* answers (hit), whether preprocess_all was called (run) and what it gave
\* (pre: Some of the two fields, or None where it raised).  The sentences
\* of a list of paragraphs stand as that list: get_sentences yields one
\* list of sentences for each paragraph.
Segment(field, cache_name, hit, run, pre) ==
    LET ft1  == IF run THEN Texts(pre[1].full_text) ELSE full_text
        ol1  == IF run THEN Texts(pre[1].online_lead) ELSE online_lead
        paragraphs == IF ~run THEN Field(field)
                      ELSE IF cache_name = Some("full_text") THEN ft1
                      ELSE ol1
        sent_paras == IF hit THEN cache[cache_name[1]][1] ELSE paragraphs
    IN  /\ full_text' = ft1 /\ online_lead' = ol1
        /\ last_run' =
              IF run
              THEN Some([full_text   |-> full_text,
                         online_lead |-> online_lead,
                         kept_full   |-> Indices(pre[1].full_text),
                         kept_lead   |-> Indices(pre[1].online_lead)])
              ELSE last_run
        /\ has_cache' = (has_cache \/ (~hit /\ cache_name # None))
        /\ cache' = IF ~hit /\ cache_name # None
                    THEN [cache EXCEPT ![cache_name[1]] = Some(sent_paras)]
                    ELSE cache
        /\ IF Len(sent_paras) = Len(paragraphs)
           THEN dpc' = "loaded" /\ returned' = sent_paras
           ELSE dpc' = "assert_failed" /\ UNCHANGED returned

\* NYTDoc.get_cached_sentences(self.<field>, cache_name): one call, to its
\* return, to the IndexError of preprocess_all or to the failed assertion.
get_cached_sentences(field, cache_name) ==
    LET hit == CacheHit(cache_name)
        run == ~hit /\ MustPreprocess(cache_name)
    IN  /\ dpc = "loaded"
        /\ calls' = calls + 1
        /\ runs' = IF run THEN runs + 1 ELSE runs
        /\ UNCHANGED <<abstract, lead>>
        /\ \E pre \in {IF run THEN preprocess_all(full_text, online_lead)
                       ELSE None} :
              IF run /\ pre = None
              THEN /\ dpc' = "raised"
                   /\ UNCHANGED <<full_text, online_lead, has_cache, cache,
                                  returned, last_run>>
              ELSE Segment(field, cache_name, hit, run, pre)

\* The bounds on the calls made on one document
MaxRuns == 2
MaxCalls == 2

\* A caller asks for the sentences of a field without naming a cache.
GetSentences ==
    /\ runs < MaxRuns
    /\ \E field \in FieldNames : get_cached_sentences(field, None)

\* A caller asks for the sentences of a field, with or without the cache
\* of that name.
GetCachedSentences ==
    /\ calls < MaxCalls
    /\ \E field \in FieldNames :
          \E cache_name \in {None, Some(field)} :
             get_cached_sentences(field, cache_name)

NextPre ==
    \/ parse_story /\ UNCHANGED notDocVars
    \/ GetSentences /\ UNCHANGED notDocVars

NextCache ==
    \/ parse_short_story /\ UNCHANGED notDocVars
    \/ GetCachedSentences /\ UNCHANGED notDocVars

-----------------------------------------------------------------------------
(* lexical/untokenizer.py *)

\* punc_re, open_paren_re, close_paren_re: ^[...]$ on a word
punc_re(word) == Len(word) = 1 /\ word[1] \in {",", ".", ";", ":", "%"}
open_paren_re(word) == Len(word) = 1 /\ word[1] \in {"(", "[", "{", "<"}
close_paren_re(word) == Len(word) = 1 /\ word[1] \in {")", "]", "}", ">"}

close_to_open_parens(word) ==
    IF word = <<")">> THEN <<"(">>
    ELSE IF word = <<"]">> THEN <<"[">>
    ELSE IF word = <<"}">> THEN <<"{">>
    ELSE <<"<">>

\* re.match(contractions_re, word): the word starts with an apostrophe
\* followed by s, t, m, d, re, ve or le
contractions_re(word) ==
    /\ Len(word) >= 2 /\ word[1] = "'"
    /\ \/ word[2] \in {"s", "t", "m", "d"}
       \/ Len(word) >= 3 /\ <<word[2], word[3]>> \in
             {<<"r", "e">>, <<"v", "e">>, <<"l", "e">>}

Last(seq) == seq[Len(seq)]
Front(seq) == SubSeq(seq, 1, Len(seq) - 1)

\* The locals of untokenize before the loop
UntokStart ==
    [add_space_before |-> FALSE, add_space_after |-> TRUE,
     symbol_stack |-> <<>>, unexpected_symbols |-> <<>>,
     spaced_words |-> <<>>]

\* One iteration of the loop of untokenize over the locals st
UntokStep(st, word) ==
    LET a == IF punc_re(word) \/ contractions_re(word)
                \/ word = <<"n", "'", "t">>
             THEN [st EXCEPT !.add_space_before = FALSE]
             ELSE IF word = <<"'">> \/ word = <<"\"">>
             THEN IF Len(st.symbol_stack) > 0 /\ Last(st.symbol_stack) = word
                  THEN [st EXCEPT !.add_space_before = FALSE,
                                  !.symbol_stack = Front(st.symbol_stack)]
                  ELSE [st EXCEPT !.add_space_after = FALSE,
                                  !.symbol_stack = Append(st.symbol_stack, word)]
             ELSE IF open_paren_re(word)
             THEN [st EXCEPT !.add_space_after = FALSE,
                             !.symbol_stack = Append(st.symbol_stack, word)]
             ELSE IF close_paren_re(word)
             THEN IF /\ Len(st.symbol_stack) > 0
                     /\ Last(st.symbol_stack) = close_to_open_parens(word)
                  THEN [st EXCEPT !.add_space_before = FALSE,
                                  !.symbol_stack = Front(st.symbol_stack)]
                  ELSE [st EXCEPT !.unexpected_symbols =
                                      Append(st.unexpected_symbols, word)]
             ELSE st
        spaced == IF a.add_space_before
                  THEN Append(a.spaced_words, <<" ">>)
                  ELSE a.spaced_words
    IN  [a EXCEPT !.spaced_words = Append(spaced, word),
                  !.add_space_before = a.add_space_after,
                  !.add_space_after = TRUE]

RECURSIVE UntokLoop(_, _)
UntokLoop(st, ws) ==
    IF ws = <<>> THEN st ELSE UntokLoop(UntokStep(st, Head(ws)), Tail(ws))

\* word not in error_symbols
Scrub(spaced, error_symbols) ==
    SelectSeq(spaced, LAMBDA word :
                 \A k \in 1..Len(error_symbols) : error_symbols[k] # word)

\* Untokenizer.untokenize: the locals at the return, the list that is
\* joined (joined) and the string returned
untokenize(ws) ==
    LET st == UntokLoop(UntokStart, ws)
        error_symbols == st.unexpected_symbols
        joined == IF Len(error_symbols) > 0
                  THEN Scrub(st.spaced_words, error_symbols)
                  ELSE st.spaced_words
    IN  [symbol_stack |-> st.symbol_stack,
         unexpected_symbols |-> st.unexpected_symbols,
         spaced_words |-> st.spaced_words,
         joined |-> joined,
         string |-> Concat(joined)]

\* The words given to untokenize: up to MaxWords of the tokens below.
MaxWords == 3

UntokWords ==
    { <<"a">>, <<"1">>, <<",">>, <<".">>, <<";">>, <<"%">>,
      <<"(">>, <<")">>, <<"]">>, <<"\"">>,
      <<"'", "s">>, <<"n", "'", "t">>, <<"'", "m">>, <<"'", "d">>,
      <<"'", "r", "e">>, <<"'", "v", "e">>, <<"'", "l", "l">> }

UntokInputs == UNION {[1..n -> UntokWords] : n \in 0..MaxWords}

\* The symbols whose reading depends on the context: quotes and
\* apostrophes, brackets, periods
AmbiguousSymbols ==
    {"'", "\"", BACKTICK, "(", ")", "[", "]", "{", "}", "<", ">", "."}

HasAmbiguousSymbols(ws) ==
    \E k \in 1..Len(ws) : \E c \in 1..Len(ws[k]) : ws[k][c] \in AmbiguousSymbols

UntokIdle ==
    /\ upc = "idle" /\ untok_words = <<>> /\ spaced_words = <<>>
    /\ symbol_stack = <<>> /\ unexpected_symbols = <<>>
    /\ joined_words = <<>> /\ untok_out = <<>> /\ retokens = <<>>

\* A call of untokenize
Untokenize ==
    /\ upc = "idle"
    /\ \E ws \in UntokInputs :
          \E r \in {untokenize(ws)} :
             /\ untok_words' = ws
             /\ spaced_words' = r.spaced_words
             /\ symbol_stack' = r.symbol_stack
             /\ unexpected_symbols' = r.unexpected_symbols
             /\ joined_words' = r.joined
             /\ untok_out' = r.string
    /\ upc' = "untokenized"
    /\ UNCHANGED <<retokens, open_quote, san_tokens>>

\* tokenize(untokenize(T)) for words T without ambiguous symbols, by the
\* default Tokenizer
Retokenize ==
    /\ upc = "untokenized"
    /\ ~HasAmbiguousSymbols(untok_words)
    /\ \E r \in {tokenize(untok_out, open_quote)} :
          /\ open_quote' = r.open_quote
          /\ san_tokens' = r.san_tokens
          /\ IF r.raised
             THEN upc' = "raised" /\ UNCHANGED retokens
             ELSE upc' = "retokenized" /\ retokens' = r.tokens
    /\ UNCHANGED <<untok_words, spaced_words, symbol_stack,
                   unexpected_symbols, joined_words, untok_out>>

\* The caller is done with the results.
UntokenizeDone ==
    /\ upc \in {"untokenized", "retokenized", "raised"}
    /\ upc' = "idle" /\ untok_words' = <<>> /\ spaced_words' = <<>>
    /\ symbol_stack' = <<>> /\ unexpected_symbols' = <<>>
    /\ joined_words' = <<>> /\ untok_out' = <<>> /\ retokens' = <<>>
    /\ UNCHANGED <<open_quote, san_tokens>>

NextUntok ==
    \/ Untokenize /\ UNCHANGED notUntokVars
    \/ Retokenize /\ UNCHANGED notUntokVars
    \/ UntokenizeDone /\ UNCHANGED notUntokVars

-----------------------------------------------------------------------------
(* doc.py: has_reachable_summary *)

SummaryTypes == {"abstract", "lead", "online_lead"}
Comparisons == {"is_identical_to", "is_contained_in", "is_subseq_of"}

\* getattr(ref_sent, comparison)(doc_sent)
Matches(comparison, ref_sent, doc_sent_) ==
    IF comparison = "is_identical_to" THEN is_identical_to(ref_sent, doc_sent_)
    ELSE IF comparison = "is_contained_in"
    THEN is_contained_in(ref_sent, doc_sent_)
    ELSE is_subseq_of(ref_sent, doc_sent_)

\* The loops of has_reachable_summary over ref_sents and doc_sents
AllFound(comparison, ref_sents_, doc_sents_) ==
    \A r \in 1..Len(ref_sents_) :
       \E d \in 1..Len(doc_sents_) :
          Matches(comparison, ref_sents_[r], doc_sents_[d])

\* The documents has_reachable_summary is called on: one short paragraph
\* in the full text and one in the online lead
ReachFullParas == { <<"A", "b", ".">>, <<"N", "O", "T", "E", "S">> }
ReachLeadParas == { <<"b">>, <<"[", "?", "]", "[", "y">> }

parse_brief_story ==
    NewDocument({<<para>> : para \in ReachFullParas},
                {<<para>> : para \in ReachLeadParas})

\* The Sentence objects get_sentences builds for paragraphs of one sentence
\* each.  No text of these documents holds an apostrophe, so open_quote is
\* False throughout and tokenize does not raise.
Sentences(paragraphs) ==
    [p \in 1..Len(paragraphs) |->
        [raw      |-> paragraphs[p],
         tokens   |-> tokenize(paragraphs[p], FALSE).tokens,
         stripped |-> stripped(paragraphs[p])]]

ReachIdle ==
    /\ rpc = "idle" /\ reach_type = "" /\ reach_cmp = ""
    /\ doc_sents = <<>> /\ ref_sents = <<>> /\ reach_result = FALSE

\* has_reachable_summary(summary_type, comparison) up to its first call of
\* get_cached_sentences: the early return for an empty summary.  Every
\* document has the three summaries.
ReachStart ==
    /\ rpc = "idle" /\ dpc = "loaded" /\ calls < MaxCalls
    /\ \E summary_type \in SummaryTypes, comparison \in Comparisons :
          /\ reach_type' = summary_type /\ reach_cmp' = comparison
          /\ rpc' = IF Len(Field(summary_type)) = 0 THEN "empty" ELSE "called"
    /\ UNCHANGED <<doc_sents, ref_sents, reach_result, docVars>>

\* One call of get_cached_sentences to its end: the call for doc_sents,
\* the call for ref_sents followed by the two loops and the return, or,
\* while has_reachable_summary is not under way, the call of someone else.
ReachGetCachedSentences ==
    /\ \E field \in FieldNames :
          \E cache_name \in {None, Some(field)} :
             /\ \/ rpc = "idle" /\ calls < MaxCalls
                \/ /\ rpc = "called"
                   /\ field = "full_text" /\ cache_name = Some(field)
                \/ /\ rpc = "doc"
                   /\ field = reach_type /\ cache_name = Some(field)
             /\ get_cached_sentences(field, cache_name)
    /\ IF rpc = "idle" THEN UNCHANGED reachVars
       ELSE IF dpc' # "loaded"
       THEN /\ rpc' = "raised"
            /\ UNCHANGED <<reach_type, reach_cmp, doc_sents, ref_sents,
                           reach_result>>
       ELSE \E sent_paras \in {Sentences(returned')} :
               IF rpc = "called"
               THEN /\ rpc' = "doc" /\ doc_sents' = sent_paras
                    /\ UNCHANGED <<reach_type, reach_cmp, ref_sents,
                                   reach_result>>
               ELSE /\ rpc' = "returned" /\ ref_sents' = sent_paras
                    /\ reach_result' =
                          AllFound(reach_cmp, sent_paras, doc_sents)
                    /\ UNCHANGED <<reach_type, reach_cmp, doc_sents>>

\* The caller is done with the answer; the document lives on.
ReachDone ==
    /\ rpc \in {"returned", "empty"}
    /\ rpc' = "idle" /\ reach_type' = "" /\ reach_cmp' = ""
    /\ doc_sents' = <<>> /\ ref_sents' = <<>> /\ reach_result' = FALSE
    /\ UNCHANGED docVars

NextReach ==
    \/ parse_brief_story /\ UNCHANGED notDocVars
    \/ ReachStart /\ UNCHANGED notReachVars
    \/ ReachGetCachedSentences /\ UNCHANGED notReachVars
    \/ ReachDone /\ UNCHANGED notReachVars

-----------------------------------------------------------------------------
(* corpus.py: get_all_docs; doc.py: NYTDoc.__init__, extract_text *)

\* line.decode('utf-8', 'strict') on a line of bytes: Some(code points), or
\* None for UnicodeDecodeError.  The lines of the model hold ASCII bytes,
\* lead bytes of two-byte sequences, continuation bytes and 0xFF.
RECURSIVE decode(_)
decode(bytes) ==
    IF bytes = <<>> THEN Some(<<>>)
    ELSE IF bytes[1] < 128
    THEN LET others == decode(Tail(bytes))
         IN  IF others = None THEN None
             ELSE Some(<<bytes[1]>> \o others[1])
    ELSE IF bytes[1] \in 194..223 /\ Len(bytes) >= 2 /\ bytes[2] \in 128..191
    THEN LET others == decode(SubSeq(bytes, 3, Len(bytes)))
         IN  IF others = None THEN None
             ELSE Some(<<(bytes[1] - 192) * 64 + (bytes[2] - 128)>>
                       \o others[1])
    ELSE None

\* NYTDoc.extract_text(file), file a list of lines: the first line that does
\* not decode is printed and the UnicodeDecodeError raised again.
RECURSIVE extract_text(_)
extract_text(file) ==
    IF file = <<>> THEN [raised |-> FALSE, printed |-> <<>>, lines |-> <<>>]
    ELSE LET decoded == decode(Head(file))
         IN  IF decoded = None
             THEN [raised |-> TRUE, printed |-> <<Head(file)>>,
                   lines |-> <<>>]
             ELSE LET later == extract_text(Tail(file))
                  IN  [later EXCEPT
                          !.lines = IF later.raised THEN <<>>
                                    ELSE <<decoded[1]>> \o later.lines]

\* NYTDoc(path, file) for a member of a tarball.  member.xml is what
\* ElementTree.fromstring and parse_story make of the decoded text:
\* "story" (a body with a full_text block), "no_text" (none) or "invalid"
\* (ParseError).  Only ParseError is caught.
NYTDoc(member) ==
    LET contents == extract_text(member.file)
    IN  [raised      |-> contents.raised,
         printed     |-> contents.printed,
         parse_error |-> ~contents.raised /\ member.xml = "invalid",
         has_full_text |-> ~contents.raised /\ member.xml = "story"]

\* NYTDoc.is_well_formed
is_well_formed(doc) == doc.has_full_text /\ ~doc.parse_error

\* The members of the tarballs: a directory, stories in ASCII and with a
\* two-byte character, a story cut inside a two-byte character, a story
\* with the byte 0xFF, a story without text and a file of invalid XML.
Members ==
    { [isfile |-> FALSE, file |-> <<>>, xml |-> "invalid"],
      [isfile |-> TRUE, file |-> <<<<65>>>>, xml |-> "story"],
      [isfile |-> TRUE, file |-> <<<<65>>, <<195, 169>>>>, xml |-> "story"],
      [isfile |-> TRUE, file |-> <<<<65>>, <<195>>>>, xml |-> "story"],
      [isfile |-> TRUE, file |-> <<<<255>>>>, xml |-> "story"],
      [isfile |-> TRUE, file |-> <<<<65>>>>, xml |-> "no_text"],
      [isfile |-> TRUE, file |-> <<<<65>>>>, xml |-> "invalid"] }

\* The number of members in the tarballs under path
MaxMembers == 3

Batches == UNION {[1..n -> Members] : n \in 0..MaxMembers}

CorpusIdle ==
    /\ gpc = "none" /\ members = <<>> /\ subset = None /\ member_pos = 0
    /\ yielded = <<>> /\ printed = <<>> /\ logged = <<>>

\* get_all_docs(path, subset): the generator is created.  The members of
\* all the tarballs stand in one sequence, in the order of the traversal,
\* and a member's position stands for its path.
get_all_docs ==
    /\ gpc = "none"
    /\ \E batch \in Batches :
          /\ members' = batch
          /\ \E paths \in {None} \cup {Some(S) : S \in SUBSET (1..Len(batch))} :
                subset' = paths
    /\ gpc' = "open"
    /\ UNCHANGED <<member_pos, yielded, printed, logged>>

\* One round of 'for member in f': a directory or a member outside subset
\* is passed over; otherwise the document is constructed and yielded if
\* well formed.  An exception of NYTDoc(...) leaves the generator.
NextMember ==
    /\ gpc = "open" /\ member_pos < Len(members)
    /\ member_pos' = member_pos + 1
    /\ LET m == member_pos + 1
           member == members[m]
       IN  IF ~member.isfile \/ (subset # None /\ m \notin subset[1])
           THEN UNCHANGED <<gpc, yielded, printed, logged>>
           ELSE \E doc \in {NYTDoc(member)} :
                   /\ printed' = printed \o doc.printed
                   /\ logged' = IF doc.parse_error THEN Append(logged, m)
                                ELSE logged
                   /\ gpc' = IF doc.raised THEN "raised" ELSE "open"
                   /\ yielded' = IF ~doc.raised /\ is_well_formed(doc)
                                 THEN Append(yielded, m) ELSE yielded
    /\ UNCHANGED <<members, subset>>

\* The last tarball is through: the generator returns.
EndOfCorpus ==
    /\ gpc = "open" /\ member_pos = Len(members)
    /\ gpc' = "exhausted"
    /\ UNCHANGED <<members, subset, member_pos, yielded, printed, logged>>

NextCorpus ==
    \/ get_all_docs /\ UNCHANGED notCorpusVars
    \/ NextMember /\ UNCHANGED notCorpusVars
    \/ EndOfCorpus /\ UNCHANGED notCorpusVars

-----------------------------------------------------------------------------
(* doc.py: conditional_replace on its own *)

\* The pieces of a source paragraph and the number of pieces
MaxSrcFrags == 2

ReplSrcFrags ==
    { <<"a", " ", "b">>, <<"x">>, <<".">>, <<" ">>, <<"x", ".">> }

ReplSrcParas ==
    UNION {{Concat(fs) : fs \in [1..n -> ReplSrcFrags]} : n \in 1..MaxSrcFrags}

\* The target paragraphs: the flawed form ab alone, twice in a row, next to
\* other words, inside a word, and a paragraph without it
ReplTgtParas ==
    { <<"a", "b">>, <<"a", "b", " ", "a", "b">>, <<"x", " ", "a", "b">>,
      <<"a", "b", "x">>, <<"x">> }

ReplIdle ==
    /\ xpc = "idle" /\ repl_tgt = <<>> /\ repl_src = <<>> /\ repl_out = <<>>

\* conditional_replace(tgt_paras, src_paras, sub_regex, sub_table) with the
\* table of ambiguous stitches, to its return or its IndexError
ConditionalReplace ==
    /\ xpc = "idle"
    /\ \E tgt_paras \in UNION {[1..n -> ReplTgtParas] : n \in 1..MaxParas},
          src_paras \in UNION {[1..n -> ReplSrcParas] : n \in 1..MaxParas} :
          /\ repl_tgt' = tgt_paras /\ repl_src' = src_paras
          /\ \E res \in {conditional_replace(tgt_paras, src_paras,
                                             AMBIGUOUS_STITCHES_SUMM)} :
                IF res = None
                THEN xpc' = "raised" /\ repl_out' = <<>>
                ELSE xpc' = "returned" /\ repl_out' = res[1]

\* The caller takes the result.
ReplaceDone ==
    /\ xpc \in {"returned", "raised"}
    /\ xpc' = "idle" /\ repl_tgt' = <<>> /\ repl_src' = <<>>
    /\ repl_out' = <<>>

NextRepl ==
    \/ ConditionalReplace /\ UNCHANGED notReplVars
    \/ ReplaceDone /\ UNCHANGED notReplVars

-----------------------------------------------------------------------------
(* corpus.py: export_dataset, the extractiveness test *)

\* extractive, semi_extractive, sub_extractive: the three flags of main.py
Flags == [extractive : BOOLEAN, semi_extractive : BOOLEAN,
          sub_extractive : BOOLEAN]

NoFlags == [extractive |-> FALSE, semi_extractive |-> FALSE,
            sub_extractive |-> FALSE]

\* doc.has_extractive_summary and its two siblings on a document whose
\* cache holds the sentences ref_sents_ and doc_sents_
has_extractive_summary(ref_sents_, doc_sents_) ==
    AllFound("is_identical_to", ref_sents_, doc_sents_)

has_semi_extractive_summary(ref_sents_, doc_sents_) ==
    AllFound("is_contained_in", ref_sents_, doc_sents_)

has_sub_extractive_summary(ref_sents_, doc_sents_) ==
    AllFound("is_subseq_of", ref_sents_, doc_sents_)

\* The if/elif chain of export_dataset: TRUE where no branch says continue
ExtractivenessTest(flags, ref_sents_, doc_sents_) ==
    LET ext  == has_extractive_summary(ref_sents_, doc_sents_)
        semi == has_semi_extractive_summary(ref_sents_, doc_sents_)
        sub  == has_sub_extractive_summary(ref_sents_, doc_sents_)
    IN  IF flags.extractive /\ flags.semi_extractive /\ flags.sub_extractive
        THEN ~(~sub)
        ELSE IF flags.extractive /\ flags.semi_extractive
        THEN ~(~semi)
        ELSE IF flags.extractive /\ flags.sub_extractive
        THEN ~(~sub \/ (semi /\ ~ext))
        ELSE IF flags.semi_extractive /\ flags.sub_extractive
        THEN ~(~sub \/ ext)
        ELSE IF flags.extractive
        THEN ~(~ext)
        ELSE IF flags.semi_extractive
        THEN ~(~semi \/ ext)
        ELSE IF flags.sub_extractive
        THEN ~(~sub \/ semi)
        ELSE TRUE

\* The sentences of the exported documents: up to MaxExportSents in the
\* summary and in the full text, none with an apostrophe.
MaxExportSents == 2

ExportRaws == { <<"a">>, <<"a", "a">>, <<"a", "B">>, <<"a", " ", "b">> }

ExportSentLists ==
    UNION {{Sentences(raws) : raws \in [1..n -> ExportRaws]} :
              n \in 1..MaxExportSents}

ExportIdle ==
    /\ epc = "idle" /\ exp_flags = NoFlags
    /\ exp_ref = <<>> /\ exp_doc = <<>> /\ exp_tested = FALSE

\* One round of the loop of export_dataset on a document that has passed
\* the tests before the extractiveness test (keep_nonsents and keep_covering
\* are set and there is no limit).
export_dataset ==
    /\ epc = "idle"
    /\ \E flags \in Flags, ref_sents_ \in ExportSentLists,
          doc_sents_ \in ExportSentLists :
          /\ exp_flags' = flags
          /\ exp_ref' = ref_sents_ /\ exp_doc' = doc_sents_
          /\ exp_tested' = ExtractivenessTest(flags, ref_sents_, doc_sents_)
          /\ epc' = IF exp_tested' THEN "yielded" ELSE "skipped"

\* The loop goes on to the next document.
ExportNext ==
    /\ epc \in {"yielded", "skipped"}
    /\ epc' = "idle" /\ exp_flags' = NoFlags
    /\ exp_ref' = <<>> /\ exp_doc' = <<>> /\ exp_tested' = FALSE

NextExport ==
    \/ export_dataset /\ UNCHANGED notExportVars
    \/ ExportNext /\ UNCHANGED notExportVars

-----------------------------------------------------------------------------
(* sentence.py: Sentence.truncate *)

\* The budgets truncate is called with
MaxBudget == 7

CostTypes == {"char", "word"}

\* The loop of truncate from token t on: the tokens kept.
RECURSIVE new_tokens(_, _, _, _, _, _)
new_tokens(toks, t, word_cost, char_cost, budget, cost_type) ==
    IF t > Len(toks) THEN <<>>
    ELSE LET word_cost_ == word_cost + (IF IsAlnum(toks[t][1]) THEN 1 ELSE 0)
             char_cost_ == char_cost + 1 + Len(toks[t])
         IN  IF \/ cost_type = "word" /\ word_cost_ > budget
                \/ cost_type = "char" /\ char_cost_ > budget - 4
             THEN <<>>
             ELSE <<toks[t]>> \o new_tokens(toks, t + 1, word_cost_,
                                            char_cost_, budget, cost_type)

\* Sentence(tokens=tokens, raw=raw): both given, nothing is tokenized
SentenceOf(toks, raw) ==
    [raw |-> raw, tokens |-> toks, stripped |-> stripped(raw)]

\* new_sent.annotations.update(self.annotations): the entries of self
\* replace those of new_sent
AnnotationsUpdate(new_sent, self) ==
    [new_sent EXCEPT !.stripped = self.stripped]

\* Sentence.truncate
truncate(self, budget, cost_type) ==
    LET kept == new_tokens(self.tokens, 1, 0, 0, budget, cost_type)
        new_sent == SentenceOf(kept,
                               JoinOnSpace(kept) \o <<" ", ".", ".", ".">>)
    IN  AnnotationsUpdate(new_sent, self)

TruncIdle ==
    /\ kpc = "idle" /\ trunc_self = NoSentence /\ trunc_new = NoSentence
    /\ trunc_budget = 0 /\ trunc_cost = ""

\* A sentence is constructed from its raw text.
NewSentence ==
    /\ kpc = "idle"
    /\ \E call \in SentenceCalls :
          /\ call.open_quote = open_quote
          /\ ~call.result.raised
          /\ trunc_self' = call.result.sentence
          /\ open_quote' = call.result.open_quote
          /\ san_tokens' = call.result.san_tokens
    /\ kpc' = "created"
    /\ UNCHANGED <<trunc_new, trunc_budget, trunc_cost>>

\* The sentence is truncated to a budget.
Truncate ==
    /\ kpc = "created"
    /\ \E budget \in 0..MaxBudget, cost_type \in CostTypes :
          /\ trunc_budget' = budget /\ trunc_cost' = cost_type
          /\ trunc_new' = truncate(trunc_self, budget, cost_type)
    /\ kpc' = "truncated"
    /\ UNCHANGED <<trunc_self, open_quote, san_tokens>>

\* The two sentences are dropped; the default Tokenizer lives on.
DropTruncated ==
    /\ kpc = "truncated"
    /\ kpc' = "idle" /\ trunc_self' = NoSentence /\ trunc_new' = NoSentence
    /\ trunc_budget' = 0 /\ trunc_cost' = ""
    /\ UNCHANGED <<open_quote, san_tokens>>

NextTrunc ==
    \/ NewSentence /\ UNCHANGED notTruncVars
    \/ Truncate /\ UNCHANGED notTruncVars
    \/ DropTruncated /\ UNCHANGED notTruncVars

-----------------------------------------------------------------------------
(* lexical/tokenizer.py: the apostrophe rule on its own *)

\* The strings the rule is applied to: up to MaxAposFrags pieces.
MaxAposFrags == 4

AposFrags == { <<"a">>, <<"n">>, <<"t">>, <<"N">>, <<"'">>, <<" ">> }

AposInputs ==
    UNION {{Concat(fs) : fs \in [1..n -> AposFrags]} : n \in 1..MaxAposFrags}

AposIdle == apc = "idle" /\ apos_in = <<>> /\ apos_out = <<>>

\* string = re.sub(self.apostrophe_re, lambda x: self.handle_apostrophes(x),
\* string): every match is replaced by what handle_apostrophes returns for
\* it, by nothing where it returns None.
ApostropheSub ==
    /\ apc = "idle"
    /\ \E string \in AposInputs :
          \E r \in {apostrophe_sub(string, 0, <<>>, open_quote)} :
             /\ apos_in' = string
             /\ apos_out' = r.text
             /\ open_quote' = r.open_quote
    /\ apc' = "substituted"

\* The cascade is done with the string; the Tokenizer object lives on.
ApostropheDone ==
    /\ apc = "substituted"
    /\ apc' = "idle" /\ apos_in' = <<>> /\ apos_out' = <<>>
    /\ UNCHANGED open_quote

NextApos ==
    \/ ApostropheSub /\ UNCHANGED notAposVars
    \/ ApostropheDone /\ UNCHANGED notAposVars

-----------------------------------------------------------------------------
(* doc.py: fix_capitalization, iteration by iteration *)

\* The first paragraphs: up to MaxCapWords words joined by single spaces,
\* the empty word giving leading, trailing and double spaces.
MaxCapWords == 3

CapTgtWords == { <<>>, <<"I", "T">>, <<"i", "s">>, <<"I", "S", ".">> }
CapSrcWords == { <<"I", "t">>, <<"i", "s">>, <<"I", "S", ".">> }

CapParas(words) ==
    UNION {{JoinOnSpace(ws) : ws \in [1..n -> words]} : n \in 1..MaxCapWords}

\* The paragraphs after the first
CapRest == { <<>>, << <<"x">> >> }

\* A variant that counts the offset of the next space from the start of
\* the rest of the string
next_space_restarting(tgt, ii) == 1 + Find(From(tgt, ii + 1), <<" ">>, 0)

\* j = i + 1 + tgt[i+1:].find(' ')
next_space(tgt, ii) == ii + 1 + Find(From(tgt, ii + 1), <<" ">>, 0)

CapIdle ==
    /\ fpc = "idle" /\ cap_tgt = <<>> /\ cap_src = <<>>
    /\ cap_i = 0 /\ cap_out = <<>>

\* fix_capitalization(tgt_paras, src_paras) up to the while loop
FixCapStart ==
    /\ fpc = "idle"
    /\ \E tgt \in CapParas(CapTgtWords), src \in CapParas(CapSrcWords),
          tgt_rest \in CapRest, src_rest \in CapRest :
          /\ cap_tgt' = <<tgt>> \o tgt_rest
          /\ cap_src' = <<src>> \o src_rest
          /\ cap_i' = Find(tgt, <<" ">>, 0)
          /\ IF cap_i' = -1 \/ (IsAlnum(tgt[Len(tgt)]) /\ IsUpperStr(tgt))
             THEN fpc' = "returned" /\ cap_out' = cap_tgt'
             ELSE fpc' = "loop" /\ cap_out' = <<>>

\* One test of the while condition and, where it holds, one run of the
\* loop body: to the continue, the break or the return.
FixCapIterate ==
    /\ fpc = "loop"
    /\ LET tgt == cap_tgt[1]
           src == cap_src[1]
           j   == next_space(tgt, cap_i)
       IN  IF StrUpper(Slice(tgt, 0, cap_i)) # StrUpper(Slice(src, 0, cap_i))
           THEN /\ fpc' = "returned" /\ cap_out' = cap_tgt
                /\ UNCHANGED cap_i
           ELSE IF \/ IsUpperStr(Slice(tgt, 0, cap_i))
                   \/ Slice(tgt, 0, cap_i) = StrUpper(Slice(tgt, 0, cap_i))
           THEN IF cap_i # j
                THEN /\ cap_i' = j /\ fpc' = "loop"
                     /\ UNCHANGED cap_out
                ELSE IF StrUpper(tgt) = StrUpper(Slice(src, 0, Len(tgt)))
                THEN /\ cap_i' = Len(tgt) /\ fpc' = "returned"
                     /\ cap_out' = FixCapReplace(cap_tgt, src, Len(tgt))
                ELSE /\ fpc' = "returned" /\ cap_out' = cap_tgt
                     /\ UNCHANGED cap_i
           ELSE /\ fpc' = "returned"
                /\ cap_out' = FixCapReplace(cap_tgt, src, cap_i)
                /\ UNCHANGED cap_i
    /\ UNCHANGED <<cap_tgt, cap_src>>

\* The caller is done with the paragraphs.
FixCapDone ==
    /\ fpc = "returned"
    /\ fpc' = "idle" /\ cap_tgt' = <<>> /\ cap_src' = <<>>
    /\ cap_i' = 0 /\ cap_out' = <<>>

NextCap ==
    \/ FixCapStart /\ UNCHANGED notCapVars
    \/ FixCapIterate /\ UNCHANGED notCapVars
    \/ FixCapDone /\ UNCHANGED notCapVars

-----------------------------------------------------------------------------
(* Specifications *)

Init ==
    /\ SplitIdle /\ MaskIdle /\ TokIdle /\ SentIdle /\ DocIdle /\ UntokIdle
    /\ ReachIdle /\ CorpusIdle /\ ReplIdle /\ ExportIdle /\ TruncIdle
    /\ AposIdle /\ CapIdle

SpecSplit == Init /\ [][NextSplit]_vars
SpecMask == Init /\ [][NextMask]_vars
SpecTok == Init /\ [][NextTok]_vars
SpecSent == Init /\ [][NextSent]_vars
SpecPre == Init /\ [][NextPre]_vars
SpecCache == Init /\ [][NextCache]_vars
SpecUntok == Init /\ [][NextUntok]_vars
SpecReach == Init /\ [][NextReach]_vars
SpecCorpus == Init /\ [][NextCorpus]_vars
SpecRepl == Init /\ [][NextRepl]_vars
SpecExport == Init /\ [][NextExport]_vars
SpecTrunc == Init /\ [][NextTrunc]_vars
SpecApos == Init /\ [][NextApos]_vars
SpecCap == Init /\ [][NextCap]_vars

\* fix_capitalization is sequential code: a call that stands in its loop
\* goes on to the next iteration.
SpecCapLive == SpecCap /\ WF_vars(FixCapIterate /\ UNCHANGED notCapVars)

-----------------------------------------------------------------------------
(* Properties of the splitter *)

IsGap(str) == \A k \in 1..Len(str) : IsSpace(str[k])

\* The sentences of out, in order, with a (possibly empty) run of whitespace
\* between consecutive sentences, concatenate to txt.
RECURSIVE Rejoins(_, _)
Rejoins(out, txt) ==
    IF Len(out) = 0 THEN txt = <<>>
    ELSE /\ StartsWith(txt, out[1])
         /\ LET rest == From(txt, Len(out[1]))
            IN  IF Len(out) = 1 THEN rest = <<>>
                ELSE \E g \in 0..Len(rest) :
                        /\ IsGap(Slice(rest, 0, g))
                        /\ Rejoins(Tail(out), From(rest, g))

\* C1: the sentences split(text) returns, rejoined in order with the
\* inter-sentence gaps, reproduce text exactly.
CoverageInvariant ==
    spc = "returned" => Rejoins(fixed_sents, text)

US == <<"U",".","S",".">>
NowLower == <<"n","o","w",".">>
NowUpper == <<"N","o","w",".">>

BadPrefixReattached ==
    [][(fix_boundaries_step /\ bad_prefix' # None)
       => fixed_sents'[Len(fixed_sents)] =
             fixed_sents[Len(fixed_sents)]
                \o Slice(text, i - prev_gap_len, i)
                \o bad_prefix'[1]]_vars

-----------------------------------------------------------------------------
(* Properties of the sanitizer *)

\* C3: for any string t, unmask_all(mask_all(t)) returns exactly t and
\* raises nothing.
MaskRoundTrip ==
    /\ mpc # "raised"
    /\ mpc = "unmasked" => unmask_out = mask_in

-----------------------------------------------------------------------------
(* Properties of the tokenizer *)

\* The offsets of tok_in that hold one of , : ; / between two digits, and
\* the offsets that hold one of them anywhere else.
NumericOccurrences(str) ==
    { p \in 1..Len(str) : /\ str[p] \in NonnumericPunc
                          /\ p > 1 /\ p < Len(str)
                          /\ IsDigit(str[p - 1]) /\ IsDigit(str[p + 1]) }

OtherOccurrences(str) ==
    { p \in 1..Len(str) : str[p] \in NonnumericPunc } \ NumericOccurrences(str)

\* The tokens that are one of the symbols alone, and the symbols that sit
\* inside longer tokens, as (token, offset) pairs.
SymbolTokens(toks) ==
    { k \in 1..Len(toks) : Len(toks[k]) = 1 /\ toks[k][1] \in NonnumericPunc }

SymbolsInsideTokens(toks) ==
    { kp \in UNION { {k} \X (1..Len(toks[k])) : k \in 1..Len(toks) } :
         /\ Len(toks[kp[1]]) > 1
         /\ toks[kp[1]][kp[2]] \in NonnumericPunc }

\* C9: when tokenize returns, every , : ; / of the text that stood between
\* two digits is inside a token, and every other one is a token of its own.
NumericGuard ==
    tpc = "returned" =>
       /\ Cardinality(SymbolsInsideTokens(tokens))
             = Cardinality(NumericOccurrences(tok_in))
       /\ Cardinality(SymbolTokens(tokens))
             = Cardinality(OtherOccurrences(tok_in))

\* C10: when tokenize returns, every substring of the text that the email
\* or URL pattern matched (the sanitizer stored it) is one token of the
\* output, as itself or as its placeholder.
MaskedSpansAreSingleTokens ==
    tpc = "returned" =>
       \A k \in 1..Len(san_tokens) :
          \E j \in 1..Len(tokens) :
             \/ tokens[j] = san_tokens[k]
             \/ \E n \in 1..Len(PatternNames) :
                   tokens[j] = store_token(PatternNames[n], k - 1)

-----------------------------------------------------------------------------
(* Properties of sentence pairs *)

\* C2: once a summary sentence and a document sentence are compared,
\* identical implies contained and contained implies subsequence.
NestingLaw ==
    cpc = "compared" => (identical => contained) /\ (contained => subseq)

-----------------------------------------------------------------------------
(* Properties of the preprocessing *)

\* C4: a call of preprocess_all on the two fields an earlier call produced
\* returns, and leaves both fields as they are.
Idempotent ==
    [][(runs >= 1 /\ runs' = runs + 1) =>
          /\ dpc' = "loaded"
          /\ full_text' = full_text /\ online_lead' = online_lead]_vars

\* The indices 0, 1, ... of a list of n paragraphs
AllIndices(n) == [k \in 1..n |-> k - 1]

\* Strictly increasing indices below n
IncreasingBelow(idx, n) ==
    /\ \A k \in 1..Len(idx) : idx[k] >= 0 /\ idx[k] < n
    /\ \A k \in 1..(Len(idx) - 1) : idx[k] < idx[k + 1]

\* C5 as stated: after preprocess_all each field holds as many paragraphs
\* as before, each at the place it had.
ParagraphsPreserved ==
    last_run # None =>
       /\ last_run[1].kept_full = AllIndices(Len(last_run[1].full_text))
       /\ last_run[1].kept_lead = AllIndices(Len(last_run[1].online_lead))

\* C5: after preprocess_all each field holds paragraphs of the field it
\* was given, at most once each and in the order they had there; no
\* paragraph is added.
ParagraphOrderPreserved ==
    last_run # None =>
       /\ Len(full_text) = Len(last_run[1].kept_full)
       /\ Len(online_lead) = Len(last_run[1].kept_lead)
       /\ IncreasingBelow(last_run[1].kept_full, Len(last_run[1].full_text))
       /\ IncreasingBelow(last_run[1].kept_lead, Len(last_run[1].online_lead))

\* preprocess_all has kept two paragraphs of the full text and dropped one
\* of the online lead.
ParagraphOrderWitness ==
    /\ last_run # None
    /\ Len(last_run[1].kept_full) >= 2
    /\ Len(last_run[1].kept_lead) < Len(last_run[1].online_lead)

\* C6: once get_cached_sentences has been called on a document,
\* preprocess_all has run exactly once, whatever the calls were.
PreprocessedOnce ==
    (dpc # "none" /\ calls >= 1) => runs = 1

-----------------------------------------------------------------------------
(* Properties of the tokenizer across calls *)

\* C11: the tokens a call of tokenize returns are those a new Tokenizer
\* returns for the same string, whatever calls were made before.
TokenizeDeterministic ==
    tpc = "returned" =>
       \A call \in TokenizeCalls :
          (call.string = tok_in /\ ~call.open_quote)
             => tokens = call.result.tokens

\* C12: no call of tokenize ends in an exception.
TokenizeNeverRaises == tpc # "raised"

-----------------------------------------------------------------------------
(* Properties of the untokenizer *)

\* Number of occurrences of the character c in the list of words ws
RECURSIVE Occurrences(_, _)
Occurrences(c, ws) ==
    IF ws = <<>> THEN 0
    ELSE Cardinality({k \in 1..Len(Head(ws)) : Head(ws)[k] = c})
            + Occurrences(c, Tail(ws))

\* C13: the string untokenize returns holds every opening bracket and
\* quote of the words, and every closing bracket except those recorded as
\* unexpected (those that did not match the opener on top of the stack).
OnlyUnmatchedClosersDropped ==
    upc = "untokenized" =>
       /\ \A c \in {"(", "[", "{", "<", "\"", "'"} :
             Occurrences(c, <<untok_out>>) = Occurrences(c, untok_words)
       /\ \A c \in {")", "]", "}", ">"} :
             Occurrences(c, <<untok_out>>) =
                Occurrences(c, untok_words) - Occurrences(c, unexpected_symbols)

\* The tokens that are never to be preceded by a space: comma, period,
\* semicolon, percent sign and the contraction suffixes of the tokenizer
NoSpaceBefore ==
    { <<",">>, <<".">>, <<";">>, <<"%">>,
      <<"'", "s">>, <<"n", "'", "t">>, <<"'", "m">>, <<"'", "d">>,
      <<"'", "r", "e">>, <<"'", "v", "e">>, <<"'", "l", "l">> }

\* C14: in the list of words and spaces that untokenize joins into its
\* result, no comma, period, semicolon, percent sign or contraction suffix
\* comes right after a space.
NoSpaceBeforePunctuation ==
    upc = "untokenized" =>
       \A k \in 2..Len(joined_words) :
          joined_words[k] \in NoSpaceBefore => joined_words[k - 1] # <<" ">>

\* C15: for words T without ambiguous symbols, tokenize(untokenize(T))
\* returns T.
UntokenizeTokenizeStable ==
    upc = "retokenized" => retokens = untok_words

-----------------------------------------------------------------------------
(* Properties of the subsequence test *)

\* The tokens whose first or last character is alphanumeric
ContentTokens(toks) == SelectSeq(toks, IsContentToken)

\* xs is an in-order subsequence of ys, without regard to case: the tokens
\* of xs match tokens of ys at strictly increasing positions.
IsSubsequence(xs, ys) ==
    \E f \in [1..Len(xs) -> 1..Len(ys)] :
       /\ \A k \in 1..Len(xs) : StrLower(xs[k]) = StrLower(ys[f[k]])
       /\ \A k \in 1..(Len(xs) - 1) : f[k] < f[k + 1]

\* C17: is_subseq_of is true exactly when the content tokens of the
\* summary sentence are, without regard to case, an in-order subsequence
\* of the tokens of the document sentence.
SubseqIsSubsequence ==
    cpc = "compared" =>
       (subseq <=> IsSubsequence(ContentTokens(summ_sent.tokens),
                                 doc_sent.tokens))

\* Two content tokens that each occur in the document sentence, but not
\* as a subsequence of it: the test has answered no.
SubseqWitness ==
    /\ cpc = "compared" /\ ~subseq
    /\ Len(ContentTokens(summ_sent.tokens)) >= 2
    /\ \A t \in 1..Len(summ_sent.tokens) :
          \E d \in 1..Len(doc_sent.tokens) :
             StrLower(summ_sent.tokens[t]) = StrLower(doc_sent.tokens[d])

-----------------------------------------------------------------------------
(* Properties of the assertion of fix_boundaries *)

\* The running offset after the candidates cands[k..]: the lengths of the
\* candidates plus the whitespace of txt consumed after each candidate but
\* the last.
RECURSIVE RunningOffset(_, _, _, _)
RunningOffset(cands, txt, k, off) ==
    IF k > Len(cands) THEN off
    ELSE LET o1 == off + Len(cands[k])
         IN  RunningOffset(cands, txt, k + 1,
                IF k < Len(cands)
                THEN o1 + consume_whitespace(txt, o1, WHITESPACE) ELSE o1)

\* C19: fix_boundaries has returned sentences only if the running offset
\* equals len(text), and has failed its assertion, returning nothing, only
\* if it does not.
AssertionGuardsReturn ==
    /\ spc = "returned" => RunningOffset(sents, text, 1, 0) = Len(text)
    /\ spc = "assert_failed" => RunningOffset(sents, text, 1, 0) # Len(text)

\* The assertion has failed on a text of two candidates, with sentences
\* already collected.
AssertionWitness ==
    /\ spc = "assert_failed" /\ Len(sents) >= 2 /\ fixed_sents # <<>>
    /\ RunningOffset(sents, text, 1, 0) < Len(text)

-----------------------------------------------------------------------------
(* Properties of the capitalization fix *)

\* The full text after the first step of the last preprocess_all
\* (doc.py:575-576), for the two fields that call was given
CapFixed == fix_capitalization(last_run[1].full_text, last_run[1].online_lead)

\* C20 as stated: the capitalization fix of preprocess_all leaves every
\* paragraph of the full text as it was.
CapFixLeavesFullText ==
    last_run # None => CapFixed = Some(last_run[1].full_text)

\* C20: the capitalization fix of preprocess_all changes at most the first
\* paragraph of the full text, and that only in a leading span, which takes
\* the casing of the same span of the online lead's first paragraph.
CapFixChangesFullTextHead ==
    last_run # None =>
       LET tgt_paras == last_run[1].full_text
           src       == last_run[1].online_lead[1]
       IN  /\ CapFixed # None
           /\ Len(CapFixed[1]) = Len(tgt_paras)
           /\ \A k \in 2..Len(tgt_paras) : CapFixed[1][k] = tgt_paras[k]
           /\ \/ CapFixed[1][1] = tgt_paras[1]
              \/ \E n \in 1..Len(tgt_paras[1]) :
                    /\ CapFixed[1][1] = Slice(src, 0, n) \o From(tgt_paras[1], n)
                    /\ StrUpper(Slice(src, 0, n))
                          = StrUpper(Slice(tgt_paras[1], 0, n))

\* preprocess_all has run on a full text of two paragraphs whose first
\* paragraph the capitalization fix changes.
CapFixWitness ==
    /\ last_run # None
    /\ Len(last_run[1].full_text) >= 2
    /\ CapFixed # None
    /\ CapFixed[1][1] # last_run[1].full_text[1]

-----------------------------------------------------------------------------
(* Properties of has_reachable_summary *)

\* C16: where has_reachable_summary returns for a summary with at least
\* one paragraph, it returns true exactly when every sentence of the
\* summary satisfies the relation against some sentence of the full text.
ReachableIffAllFound ==
    rpc = "returned" =>
       (reach_result <=> AllFound(reach_cmp, Sentences(Field(reach_type)),
                                  Sentences(full_text)))

-----------------------------------------------------------------------------
(* Properties of get_all_docs *)

\* The members get_all_docs is to read: the files subset lets through
Requested ==
    {m \in 1..Len(members) :
        members[m].isfile /\ (subset = None \/ m \in subset[1])}

Undecodable(m) == \E l \in 1..Len(members[m].file) :
                     decode(members[m].file[l]) = None

\* C18: a document whose bytes do not decode as UTF-8 is reported and left
\* out, and the traversal goes on: once it has ended, every other requested
\* document that is well formed was yielded.
UndecodableDocOnlyExcluded ==
    gpc \in {"exhausted", "raised"} =>
       \A m \in Requested :
          /\ Undecodable(m) =>
                /\ \A y \in 1..Len(yielded) : yielded[y] # m
                /\ \E p \in 1..Len(printed) :
                      \E l \in 1..Len(members[m].file) :
                         printed[p] = members[m].file[l]
          /\ (~Undecodable(m) /\ members[m].xml = "story") =>
                \E y \in 1..Len(yielded) : yielded[y] = m

-----------------------------------------------------------------------------
(* Properties of conditional_replace *)

\* word occurs in para with no alphanumeric character right before it or
\* right after it
WholeWordIn(para, word) ==
    \E a \in 0..Len(para) :
       /\ OccursAt(para, word, a)
       /\ a = 0 \/ ~IsAlnum(para[a])
       /\ a + Len(word) = Len(para) \/ ~IsAlnum(para[a + Len(word) + 1])

\* C21: conditional_replace does not fail, and rewrites the target only if
\* some source paragraph holds the corrected form as a whole word.
RewriteOnlyIfWholeWordInSource ==
    /\ xpc # "raised"
    /\ (xpc = "returned" /\ repl_out # repl_tgt) =>
          \E p \in 1..Len(repl_src) :
             WholeWordIn(repl_src[p], AMBIGUOUS_STITCHES_SUMM.value)

\* C26: where conditional_replace finds the corrected form in the source,
\* the paragraphs it returns hold no space-delimited occurrence of the
\* flawed form any more.
NoFlawedFormLeft ==
    (/\ xpc = "returned"
     /\ SearchParas(repl_src, AMBIGUOUS_STITCHES_SUMM.value) = "found") =>
       \A p \in 1..Len(repl_out) :
          ~Contains(Padded(repl_out[p]), Padded(AMBIGUOUS_STITCHES_SUMM.key))


\* The flags of a call taken one at a time
SingleFlags(flags) ==
    { f \in Flags :
         /\ (IF f.extractive THEN 1 ELSE 0)
            + (IF f.semi_extractive THEN 1 ELSE 0)
            + (IF f.sub_extractive THEN 1 ELSE 0) = 1
         /\ f.extractive => flags.extractive
         /\ f.semi_extractive => flags.semi_extractive
         /\ f.sub_extractive => flags.sub_extractive }

\* C22: with two or three of the flags extractive, semi_extractive and
\* sub_extractive set, the extractiveness test of export_dataset lets a
\* document pass if and only if the test with one of these flags alone lets
\* it pass: the dataset of several flags is the union of the datasets of
\* the single flags.
MultiFlagIsUnion ==
    (epc # "idle" /\ Cardinality(SingleFlags(exp_flags)) >= 2) =>
       (exp_tested <=>
          \E f \in SingleFlags(exp_flags) :
             ExtractivenessTest(f, exp_ref, exp_doc))


\* C23: every Sentence the program creates, the ones truncate returns
\* included, holds as annotations['stripped'] the canonical form of its own
\* raw text: lower case, without the non-alphanumeric characters.
StrippedIsCanonical ==
    /\ kpc # "idle" => trunc_self.stripped = stripped(trunc_self.raw)
    /\ kpc = "truncated" => trunc_new.stripped = stripped(trunc_new.raw)

\* C24: after a bad prefix is excised in fix_boundaries, the current
\* candidate continues as the candidate without the prefix and without the
\* whitespace that follows the prefix inside the candidate, wherever the
\* candidate lies in the text.
PrefixExcisedFromCandidate ==
    [][(fix_boundaries_step /\ bad_prefix' # None)
       => sent' = From(sents[s + 1],
                       Len(bad_prefix'[1])
                       + consume_whitespace(sents[s + 1], Len(bad_prefix'[1]),
                                            WHITESPACE))]_vars

\* C27: in the list fix_boundaries returns no sentence other than the last
\* has a bad suffix, also after bad prefixes or lowercase-initial candidates
\* have been appended to a finalized sentence.
NoBadSuffixInside ==
    spc = "returned" =>
       \A k \in 1..(Len(fixed_sents) - 1) : check_suffix(fixed_sents[k]) = None

\* The string with every maximal run of ! and ? replaced by its first
\* symbol, set off by spaces
RECURSIVE CollapseRuns(_, _, _)
CollapseRuns(str, p, out) ==
    IF p >= Len(str) THEN out
    ELSE IF str[p + 1] \in {"!", "?"}
    THEN CollapseRuns(str, RunEnd(str, p, {"!", "?"}),
                      out \o <<" ", str[p + 1], " ">>)
    ELSE CollapseRuns(str, p + 1, out \o <<str[p + 1]>>)

\* C25: tokenize turns every maximal run of ! and ? into one token, the
\* first symbol of the run, and removes no other character (on strings of
\* letters, digits, spaces, ! and ?, which no other rule of tokenize
\* touches).
BangRunsBecomeTokens ==
    (/\ tpc = "returned"
     /\ \A k \in 1..Len(tok_in) :
           IsAlnum(tok_in[k]) \/ tok_in[k] \in {" ", "!", "?"})
    => tokens = WhitespaceSplit(CollapseRuns(tok_in, 0, <<>>), <<>>)


\* The characters xs occur in ys in the same order
RECURSIVE OccurInOrder(_, _)
OccurInOrder(xs, ys) ==
    IF xs = <<>> THEN TRUE
    ELSE IF ys = <<>> THEN FALSE
    ELSE IF Head(xs) = Head(ys) THEN OccurInOrder(Tail(xs), Tail(ys))
    ELSE OccurInOrder(xs, Tail(ys))

\* C29: handle_apostrophes returns a replacement for every match of the
\* apostrophe pattern, and the replacement holds every letter and digit the
\* match captured: the substitution deletes no letter or digit of the
\* string.
ApostropheKeepsLetters ==
    apc = "substituted" =>
       OccurInOrder(SelectSeq(apos_in, IsAlnum), SelectSeq(apos_out, IsAlnum))

\* C28: a call get_cached_sentences(paragraphs, cache_name=X) that returns
\* gives, and leaves cached under X, the segmentation of field X of the
\* document, for every cache name and whichever call is made first; with
\* X already cached it returns the cached segmentation.
CachedUnderOwnName ==
    [][\A field \in FieldNames :
          (/\ calls < MaxCalls
           /\ get_cached_sentences(field, Some(field))
           /\ dpc' = "loaded")
          => /\ cache'[field] = Some(returned')
             /\ IF CacheHit(Some(field))
                THEN returned' = cache[field][1]
                ELSE returned' = Field(field)']_vars


\* The statement-by-statement model returns what fix_capitalization returns.
FixCapAgrees ==
    fpc = "returned" => Some(cap_out) = fix_capitalization(cap_tgt, cap_src)

\* C30: fix_capitalization terminates on non-empty paragraph lists: every
\* iteration of its while loop returns, leaves the loop or makes i strictly
\* larger, i never exceeds the length of the first target paragraph, and a
\* call that has entered the loop returns.
FixCapTerminates ==
    /\ [][FixCapIterate => (fpc' = "returned" \/ cap_i' > cap_i)]_vars
    /\ [](fpc # "idle" => cap_i <= Len(cap_tgt[1]))
    /\ (fpc = "loop") ~> (fpc = "returned")

\* Witness of C30: a call has gone round the loop at least once, i has
\* moved on from the first space, and has returned a changed paragraph.
FixCapTerminatesWitness ==
    /\ fpc = "returned"
    /\ cap_i > Find(cap_tgt[1], <<" ">>, 0)
    /\ Find(cap_tgt[1], <<" ">>, 0) >= 0
    /\ cap_out # cap_tgt
====
